---- MODULE Spec2Model ----
(***************************************************************************)
(* Sincro: table synchronization engine (src/sync.py), its ledger          *)
(* (src/metadata.py) and the connection it writes through (src/db.py).     *)
(*                                                                         *)
(* One source table and its destination counterpart are modelled.  A row   *)
(* is a function from column names to values; a table is a bag of rows (a  *)
(* function from the possible rows to their multiplicity), because a table *)
(* without a primary-key constraint may hold rows that agree on the        *)
(* configured key columns and even identical rows.                         *)
(***************************************************************************)
EXTENDS Integers, Sequences, FiniteSets, TLC

\* ------------------------------------------------------------------ bounds
\* Key values are 1..MaxKey.
MaxKey == 2
\* A table without a primary-key constraint holds at most MaxRows rows.
MaxRows == 2
\* synchronize_tables is called at most MaxRuns times.
MaxRuns == 2
\* Rows per INSERT batch; the code's 50000 (sync.py:327) scaled down so that
\* a phase of the model has more than one batch.
insert_batch_size == 2
\* Rows per UPDATE/DELETE batch; the code's 10000 (sync.py:434, 513) scaled down.
batch_size == 1

\* ------------------------------------------------------------ table schema
\* sys.columns / sys.types rows of the table, as the catalog queries see them.
ColK == [name |-> "k", is_computed |-> FALSE, is_identity |-> FALSE, type |-> "int"]
ColKIdentity == [name |-> "k", is_computed |-> FALSE, is_identity |-> TRUE, type |-> "int"]
ColV == [name |-> "v", is_computed |-> FALSE, is_identity |-> FALSE, type |-> "varchar"]
ColXRowversion == [name |-> "x", is_computed |-> FALSE, is_identity |-> FALSE, type |-> "timestamp"]
ColXIdentity == [name |-> "x", is_computed |-> FALSE, is_identity |-> TRUE, type |-> "int"]
ColXComputed == [name |-> "x", is_computed |-> TRUE, is_identity |-> FALSE, type |-> "int"]

\* The table definitions considered: columns in column_id order and the
\* columns of the PRIMARY KEY constraint in key_ordinal order (<<>>: a heap
\* without primary key, whose key columns the user has to configure).
TableDefs ==
    { [columns |-> <<ColK, ColV>>, pk_constraint |-> <<"k">>],
      [columns |-> <<ColK, ColV, ColXRowversion>>, pk_constraint |-> <<"k">>],
      [columns |-> <<ColK, ColV, ColXIdentity>>, pk_constraint |-> <<"k">>],
      [columns |-> <<ColK, ColV, ColXComputed>>, pk_constraint |-> <<"k">>],
      [columns |-> <<ColKIdentity, ColV>>, pk_constraint |-> <<"k">>],
      [columns |-> <<ColK, ColV>>, pk_constraint |-> <<>>],
      [columns |-> <<ColK, ColV, ColXRowversion>>, pk_constraint |-> <<>>] }

Range(s) == {s[j] : j \in DOMAIN s}

ColNames(t) == [j \in DOMAIN t.columns |-> t.columns[j].name]

\* Values a column can hold.  A rowversion value is assigned by the database
\* that holds the row, so the two sides differ in it at will.  The values of the
\* computed column and of an identity column that is not the key are not
\* tracked (one value stands for them): the engine never selects these columns.
ColDomain(c) ==
    IF c.name = "k" THEN 1..MaxKey
    ELSE IF c.name = "v" THEN {"A", "B"}
    ELSE IF c.is_computed \/ c.is_identity THEN {0}
    ELSE {0, 1}

HasX(t) == \E j \in DOMAIN t.columns : t.columns[j].name = "x"

XColumn(t) == t.columns[CHOOSE j \in DOMAIN t.columns : t.columns[j].name = "x"]

RowVals(t) ==
    IF HasX(t)
    THEN { [k |-> a, v |-> b, x |-> c] :
             a \in ColDomain(ColK), b \in ColDomain(ColV), c \in ColDomain(XColumn(t)) }
    ELSE { [k |-> a, v |-> b] : a \in ColDomain(ColK), b \in ColDomain(ColV) }

\* ------------------------------------------------------------------- bags
RECURSIVE SumOver(_, _)
SumOver(b, S) ==
    IF S = {} THEN 0
    ELSE LET r == CHOOSE r \in S : TRUE IN b[r] + SumOver(b, S \ {r})

Size(b) == SumOver(b, DOMAIN b)

Rows(b) == {r \in DOMAIN b : b[r] > 0}

EmptyTable(t) == [r \in RowVals(t) |-> 0]

\* Every order in which a SELECT without ORDER BY may return the rows of b.
RECURSIVE Orderings(_)
Orderings(b) ==
    IF Rows(b) = {} THEN {<<>>}
    ELSE UNION { { <<r>> \o s : s \in Orderings([b EXCEPT ![r] = @ - 1]) } : r \in Rows(b) }

\* A rowversion value is unique in its database: no two rows of a table carry
\* the same one.
HasVersion(t) == HasX(t) /\ XColumn(t).type \in {"timestamp", "rowversion"}

VersionsDistinct(t, S) ==
    HasVersion(t) => \A r1, r2 \in S : r1.x = r2.x => r1 = r2

\* The contents a table of definition t can have: with a primary-key
\* constraint no two rows agree on it.
TableStates(t) ==
    IF t.pk_constraint # <<>>
    THEN { [r \in RowVals(t) |-> IF r \in S THEN 1 ELSE 0] :
             S \in { S \in SUBSET RowVals(t) :
                       /\ \A r1, r2 \in S : (\A j \in DOMAIN t.pk_constraint :
                             r1[t.pk_constraint[j]] = r2[t.pk_constraint[j]]) => r1 = r2
                       /\ VersionsDistinct(t, S) } }
    ELSE { b \in [RowVals(t) -> 0..MaxRows] :
             /\ Size(b) <= MaxRows
             /\ VersionsDistinct(t, Rows(b))
             /\ HasVersion(t) => \A r \in Rows(b) : b[r] = 1 }

\* ------------------------------------------------- configuration (config.py)
CHANGE_DETECTION_ROWVERSION == "rowversion"
CHANGE_DETECTION_HASH == "hash"
None == "None"

\* Config.BATCH_SIZE, the one batch size of the deployment's configuration.
BATCH_SIZE == 1000

\* The row filters considered: none, or one on the value column.
WhereClauses == {"", "v = 'A'"}

\* A TableSyncConfig as the configuration dialog leaves it: the key columns
\* still to be detected, or typed in by the user.
TableSyncConfig(pk, auto, where, selected, enabled) ==
    [ schema |-> "dbo", table_name |-> "Orders",
      primary_key_columns |-> pk, pk_auto_detected |-> auto, where_clause |-> where,
      change_detection_strategy |-> None, has_rowversion |-> FALSE,
      rowversion_column |-> None, is_selected |-> selected, sync_enabled |-> enabled ]

full_name == "[dbo].[Orders]"

\* ------------------------------------------------------ queries (sync.py, db.py)
build_where_clause(c) ==
    IF c.where_clause # "" THEN <<"WHERE", c.where_clause>> ELSE <<>>

\* The database's evaluation of the WHERE text on one row.
Satisfies(r, where) ==
    \/ where = <<>>
    \/ where[2] = "v = 'A'" /\ r.v = "A"

Project(r, cols) == [c \in Range(cols) |-> r[c]]

\* SELECT cols FROM table [WHERE ...]: every order the rows may come back in.
execute_query(b, cols, where) ==
    { [j \in DOMAIN s |-> Project(s[j], cols)] :
        s \in Orderings([r \in DOMAIN b |-> IF Satisfies(r, where) THEN b[r] ELSE 0]) }

\* pyodbc.Row attribute access raises AttributeError for a column that was not selected.
HasAttrs(row, cols) == \A j \in DOMAIN cols : cols[j] \in DOMAIN row

\* tuple([getattr(row, col) for col in pk_columns])
KeyOf(row, pk_columns) == [j \in DOMAIN pk_columns |-> row[pk_columns[j]]]

\* [row[0] for row in rows]
NamesOf(columns) == [j \in DOMAIN columns |-> columns[j].name]

IsRowversion(c) == c.type \in {"timestamp", "rowversion"}

\* The catalog query of _detect_change_strategy.
rowversion_columns(t) == NamesOf(SelectSeq(t.columns, IsRowversion))

\* Variant that returns the key columns in column_id order.
primary_key_query_by_column_id(t) ==
    LET InKey(c) == c.name \in Range(t.pk_constraint)
    IN NamesOf(SelectSeq(t.columns, InKey))

\* The catalog query of _get_primary_key_columns (sync.py 62-80): the columns of
\* the PRIMARY KEY constraint, ORDER BY ic.key_ordinal.
primary_key_query(t) == t.pk_constraint

IsNotComputed(c) == ~c.is_computed

get_all_columns(t) == NamesOf(SelectSeq(t.columns, IsNotComputed))

\* Variant that forgets the identity columns.
IsInsertable_with_identity(c) == ~c.is_computed /\ ~IsRowversion(c)

IsInsertable(c) == ~c.is_computed /\ ~c.is_identity /\ ~IsRowversion(c)

get_insertable_columns(t) == NamesOf(SelectSeq(t.columns, IsInsertable))

\* ------------------------------------------- statements against the destination
\* The outcomes of each statement: a set of tables, because the database assigns
\* the identity and rowversion values; the empty set when the statement fails on
\* the destination's primary-key constraint.
KeyTaken(b, t, r) ==
    /\ t.pk_constraint # <<>>
    /\ \E q \in Rows(b) : KeyOf(q, t.pk_constraint) = KeyOf(r, t.pk_constraint)

\* INSERT INTO table (cols) VALUES (params)
ExecInsert(b, t, cols, params) ==
    { [b EXCEPT ![r] = @ + 1] :
        r \in { r \in RowVals(t) : /\ \A j \in DOMAIN cols : r[cols[j]] = params[cols[j]]
                                   /\ ~KeyTaken(b, t, r) } }

\* The row an UPDATE leaves: the SET columns take the parameters' values, a
\* rowversion column takes the new value nv.
Updated(r, t, set_cols, params, nv) ==
    [c \in DOMAIN r |->
        IF c \in Range(set_cols) THEN params[c]
        ELSE IF c = "x" /\ IsRowversion(XColumn(t)) THEN nv
        ELSE r[c]]

\* UPDATE table SET set_cols = ? WHERE pk_columns = ?
ExecUpdate(b, t, set_cols, pk_columns, params) ==
    { [r \in DOMAIN b |->
         SumOver(b, { q \in Rows(b) :
             IF KeyOf(q, pk_columns) = KeyOf(params, pk_columns)
             THEN Updated(q, t, set_cols, params, nv) = r
             ELSE q = r })] : nv \in {0, 1} }

\* DELETE FROM table WHERE pk_columns = ?
ExecDelete(b, pk_columns, key) ==
    { [r \in DOMAIN b |-> IF KeyOf(r, pk_columns) = key THEN 0 ELSE b[r]] }

\* ------------------------------------------------------- ledger (metadata.py)
RECURSIVE Join(_)
Join(cols) ==
    IF Len(cols) = 0 THEN ""
    ELSE IF Len(cols) = 1 THEN cols[1]
    ELSE cols[1] \o "," \o Join(Tail(cols))

Matches(row, schema, table_name) == row.schema_name = schema /\ row.table_name = table_name

\* Variant without the WHEN MATCHED branch: the row is always inserted.
upsert_metadata_insert_only(rows, c, change_detection_strategy, rowversion_column) ==
    rows \cup
    { [ schema_name |-> c.schema, table_name |-> c.table_name,
        primary_key_columns |->
            IF c.primary_key_columns # <<>> THEN Join(c.primary_key_columns) ELSE None,
        pk_auto_detected |-> c.pk_auto_detected,
        where_clause |-> c.where_clause,
        change_detection_strategy |-> change_detection_strategy,
        rowversion_column |-> rowversion_column,
        last_rowversion_synced |-> None, last_hash_synced |-> None,
        last_sync_date |-> None, last_sync_status |-> None,
        records_inserted |-> 0, records_updated |-> 0, records_deleted |-> 0,
        last_error_message |-> None, last_error_date |-> None,
        created_date |-> "GETDATE", modified_date |-> "GETDATE" ] }

\* MERGE ... WHEN MATCHED THEN UPDATE ... WHEN NOT MATCHED THEN INSERT
upsert_metadata(rows, c, change_detection_strategy, rowversion_column) ==
    LET pk_columns_str ==
            IF c.primary_key_columns # <<>> THEN Join(c.primary_key_columns) ELSE None
    IN IF \E row \in rows : Matches(row, c.schema, c.table_name)
       THEN { IF Matches(row, c.schema, c.table_name)
              THEN [row EXCEPT !.primary_key_columns = pk_columns_str,
                               !.pk_auto_detected = c.pk_auto_detected,
                               !.where_clause = c.where_clause,
                               !.change_detection_strategy = change_detection_strategy,
                               !.rowversion_column = rowversion_column,
                               !.modified_date = "GETDATE"]
              ELSE row : row \in rows }
       ELSE rows \cup
            { [ schema_name |-> c.schema, table_name |-> c.table_name,
                primary_key_columns |-> pk_columns_str,
                pk_auto_detected |-> c.pk_auto_detected,
                where_clause |-> c.where_clause,
                change_detection_strategy |-> change_detection_strategy,
                rowversion_column |-> rowversion_column,
                last_rowversion_synced |-> None, last_hash_synced |-> None,
                last_sync_date |-> None, last_sync_status |-> None,
                records_inserted |-> 0, records_updated |-> 0, records_deleted |-> 0,
                last_error_message |-> None, last_error_date |-> None,
                created_date |-> "GETDATE", modified_date |-> "GETDATE" ] }

\* Variant that stores the amounts passed instead of adding them.
update_sync_status_overwriting(rows, schema, table_name, status, ins, upd, del, error_message) ==
    { IF ~Matches(row, schema, table_name) THEN row
      ELSE [row EXCEPT !.last_sync_date = "GETDATE", !.last_sync_status = status,
                       !.records_inserted = ins, !.records_updated = upd,
                       !.records_deleted = del,
                       !.last_error_message = error_message,
                       !.modified_date = "GETDATE"] : row \in rows }

\* UPDATE ... WHERE schema_name = ? AND table_name = ?: no row, no effect.
update_sync_status(rows, schema, table_name, status, ins, upd, del, error_message) ==
    { IF ~Matches(row, schema, table_name) THEN row
      ELSE IF error_message # None /\ error_message # ""
      THEN [row EXCEPT !.last_sync_date = "GETDATE", !.last_sync_status = status,
                       !.records_inserted = @ + ins, !.records_updated = @ + upd,
                       !.records_deleted = @ + del,
                       !.last_error_message = error_message,
                       !.last_error_date = "GETDATE", !.modified_date = "GETDATE"]
      ELSE [row EXCEPT !.last_sync_date = "GETDATE", !.last_sync_status = status,
                       !.records_inserted = @ + ins, !.records_updated = @ + upd,
                       !.records_deleted = @ + del,
                       !.last_error_message = None,
                       !.modified_date = "GETDATE"] : row \in rows }

\* UPDATE ... SET last_rowversion_synced = ? WHERE schema_name = ? AND table_name = ?
update_rowversion_synced(rows, schema, table_name, rowversion) ==
    { IF ~Matches(row, schema, table_name) THEN row
      ELSE [row EXCEPT !.last_rowversion_synced = rowversion,
                       !.modified_date = "GETDATE"] : row \in rows }

\* UPDATE ... SET last_hash_synced = ? WHERE schema_name = ? AND table_name = ?
update_hash_synced(rows, schema, table_name, hash_value) ==
    { IF ~Matches(row, schema, table_name) THEN row
      ELSE [row EXCEPT !.last_hash_synced = hash_value,
                       !.modified_date = "GETDATE"] : row \in rows }

\* Variant without the WHERE: the rows of all tables are reset.
reset_table_metadata_everywhere(rows, schema, table_name) ==
    { [row EXCEPT !.last_rowversion_synced = None, !.last_hash_synced = None,
                  !.records_inserted = 0, !.records_updated = 0, !.records_deleted = 0,
                  !.last_error_message = None, !.last_error_date = None,
                  !.modified_date = "GETDATE"] : row \in rows }

\* UPDATE ... SET counters = 0, watermarks and error = NULL WHERE schema_name = ? AND table_name = ?
reset_table_metadata(rows, schema, table_name) ==
    { IF ~Matches(row, schema, table_name) THEN row
      ELSE [row EXCEPT !.last_rowversion_synced = None, !.last_hash_synced = None,
                       !.records_inserted = 0, !.records_updated = 0, !.records_deleted = 0,
                       !.last_error_message = None, !.last_error_date = None,
                       !.modified_date = "GETDATE"] : row \in rows }

\* ------------------------------------------------------------------- state
VARIABLES
    tbl,          \* the table's definition in the source catalog
    src,          \* rows of the source table
    dst,          \* rows of the destination table (empty while it does not exist)
    dst_exists,   \* dest_db.table_exists(schema, table)
    cfg,          \* the TableSyncConfig object, reused from run to run
    ledger,       \* rows of dbo.SyncMetadata
    pc,           \* where control is
    i,            \* index of synchronize_tables' loop
    runs,         \* calls of synchronize_tables so far
    ph,           \* index of the running phase in the strategy's phase sequence
    prepared,     \* the running phase has computed its queue
    queue,        \* rows_to_insert / rows_to_update / pks_to_delete not yet sent
    total,        \* size of the phase's queue when it was computed
    count,        \* total_inserted / total_updated / total_deleted of the phase
    inner,        \* the stats dict of _sync_with_rowversion / _sync_with_hash
    stats,        \* the stats dict of synchronize()
    total_stats,  \* the aggregate of synchronize_tables
    issued,       \* history: the statements committed to the destination in this run
    dst0,         \* history: dst when the run began
    snap,         \* history: dst when the running (or last finished) phase began
    result,       \* history: outcome of the last table run: NONE, SUCCESS or ERROR
    failed,       \* history: the step of this run that raised
    returned,     \* history: the phase that has just returned, before the next begins
    prev_ok,      \* history: the run before this one returned with success
    configs,      \* the list given to synchronize_tables, when it has several tables
    catalog,      \* per table of configs: what the source catalog says of it
    callback,     \* the callback argument: None, or the statuses on which it raises
    exists,       \* per table of configs: the destination has the table
    ddl,          \* statements executed in the open mirror-creation transaction
    applied,      \* history: per table of configs, batches committed in this run
    events,       \* history: what synchronize_tables did, in order
    reports,      \* history: the calls progress_callback('PROGRESS', ...) received
    source_table, \* create_table_as_mirror: the table as the source catalog describes it
    table_def,    \* the TableDefinition of get_table_definition
    ddl_script,   \* the statements of generate_full_table_script, in order
    mirror,       \* the table as the destination catalog describes it
    mirror_def    \* the TableDefinition extracted again, from the destination

progVars == <<tbl, src, dst, dst_exists, cfg, ledger, pc, i, runs, ph, prepared, queue,
              total, count, inner, stats, total_stats>>
histVars == <<issued, dst0, snap, result, failed, returned, prev_ok>>
schemaVars == <<source_table, table_def, ddl_script, mirror, mirror_def>>
orchVars == <<configs, catalog, callback, exists, ddl, applied, events, reports, schemaVars>>
vars == <<progVars, histVars, orchVars>>

\* No table is being mirrored in detail: the variables of the schema model rest.
NoTable == [exists |-> FALSE]

NoSchema ==
    /\ source_table = NoTable
    /\ table_def = NoTable
    /\ ddl_script = <<>>
    /\ mirror = NoTable
    /\ mirror_def = NoTable

\* callback=None, and a callback that raises on the statuses in raises.
NoCallback == [given |-> FALSE, raises |-> {}]

\* synchronize_tables with the one-table list: the variables of the list are unused.
OneTable ==
    /\ configs = <<>>
    /\ catalog = <<>>
    /\ callback = NoCallback
    /\ exists = <<>>
    /\ ddl = 0
    /\ applied = <<>>
    /\ events = <<>>
    /\ reports = <<>>
    /\ NoSchema

table_configs == <<cfg>>

ZeroStats == [inserted |-> 0, updated |-> 0, deleted |-> 0, errors |-> 0]

NoFailure == [step |-> "none"]

KeyChoices(t) == { <<<<>>, TRUE>>, <<<<"k">>, FALSE>> }

Init ==
    /\ tbl \in TableDefs
    /\ src \in TableStates(tbl)
    /\ dst_exists \in BOOLEAN
    /\ dst \in IF dst_exists THEN TableStates(tbl) ELSE {EmptyTable(tbl)}
    /\ \E kc \in KeyChoices(tbl), w \in WhereClauses, sel \in BOOLEAN :
          cfg = TableSyncConfig(kc[1], kc[2], w, sel, TRUE)
    /\ ledger = {}
    /\ pc = "idle"
    /\ i = 1
    /\ runs = 0
    /\ ph = 1
    /\ prepared = FALSE
    /\ queue = <<>>
    /\ total = 0
    /\ count = 0
    /\ inner = ZeroStats
    /\ stats = ZeroStats
    /\ total_stats = [total_tables |-> 0, successful |-> 0, failed |-> 0,
                      total_inserted |-> 0, total_updated |-> 0, total_deleted |-> 0,
                      errors |-> <<>>]
    /\ issued = <<>>
    /\ dst0 = dst
    /\ snap = dst
    /\ result = "NONE"
    /\ failed = NoFailure
    /\ returned = "none"
    /\ prev_ok = FALSE
    /\ OneTable

\* --------------------------------------------------- the diff (sync.py 262-536)
\* Variants with the membership test dropped and with it inverted.
rows_to_insert_unfiltered(all_source_rows, dest_pk_set, pk_columns) == all_source_rows

rows_to_insert_inverted(all_source_rows, dest_pk_set, pk_columns) ==
    LET Present(row) == KeyOf(row, pk_columns) \in dest_pk_set
    IN SelectSeq(all_source_rows, Present)

\* Step 3 of _insert_missing_records: the source rows whose key is not in the destination.
rows_to_insert(all_source_rows, dest_pk_set, pk_columns) ==
    LET Missing(row) == KeyOf(row, pk_columns) \notin dest_pk_set
    IN SelectSeq(all_source_rows, Missing)

\* Step 3 of _perform_updates: the last destination row fetched for each key.
dest_dict(dest_rows, pk_columns) ==
    [ key \in { KeyOf(dest_rows[j], pk_columns) : j \in DOMAIN dest_rows } |->
        dest_rows[CHOOSE j \in DOMAIN dest_rows :
            /\ KeyOf(dest_rows[j], pk_columns) = key
            /\ \A m \in DOMAIN dest_rows :
                   KeyOf(dest_rows[m], pk_columns) = key => m <= j] ]

\* getattr(row, col, None)
GetAttrOrNone(row, col) == IF col \in DOMAIN row THEN row[col] ELSE None

\* Variant that compares the source row with itself.
has_differences_same_row(source_row, dest_row, compare_cols) ==
    \E j \in DOMAIN compare_cols :
        GetAttrOrNone(source_row, compare_cols[j]) # GetAttrOrNone(source_row, compare_cols[j])

\* Variant that finds every pair of rows different.
has_differences_always(source_row, dest_row, compare_cols) == TRUE

has_differences(source_row, dest_row, compare_cols) ==
    \E j \in DOMAIN compare_cols :
        GetAttrOrNone(source_row, compare_cols[j]) # GetAttrOrNone(dest_row, compare_cols[j])

\* Variant that queues every source row whose key the destination has.
rows_to_update_unconditional(source_rows, dict, pk_columns, compare_cols) ==
    LET Present(source_row) == KeyOf(source_row, pk_columns) \in DOMAIN dict
    IN SelectSeq(source_rows, Present)

\* Step 4 of _perform_updates.
rows_to_update(source_rows, dict, pk_columns, compare_cols) ==
    LET Changed(source_row) ==
            /\ KeyOf(source_row, pk_columns) \in DOMAIN dict
            /\ has_differences(source_row, dict[KeyOf(source_row, pk_columns)], compare_cols)
    IN SelectSeq(source_rows, Changed)

\* compare_cols = [col for col in insertable_cols if col not in pk_columns]
compare_columns(insertable_cols, pk_columns) ==
    LET NotKey(col) == col \notin Range(pk_columns) IN SelectSeq(insertable_cols, NotKey)

\* Variant that queues every destination key.
pks_to_delete_all(dest_pks, source_pk_set, pk_columns) ==
    [j \in DOMAIN dest_pks |-> KeyOf(dest_pks[j], pk_columns)]

\* Step 3 of _perform_deletes: the destination keys that the source does not have.
pks_to_delete(dest_pks, source_pk_set, pk_columns) ==
    LET keys == [j \in DOMAIN dest_pks |-> KeyOf(dest_pks[j], pk_columns)]
        Gone(key) == key \notin source_pk_set
    IN SelectSeq(keys, Gone)

\* The SELECT of step 2 of _perform_deletes: the source's query text, with its WHERE.
dest_pk_query_where(where) == where

\* executemany: the statements of one batch, in order.
RECURSIVE InsertMany(_, _, _, _)
InsertMany(b, t, cols, rows) ==
    IF rows = <<>> THEN {b}
    ELSE UNION { InsertMany(b2, t, cols, Tail(rows)) : b2 \in ExecInsert(b, t, cols, Head(rows)) }

RECURSIVE UpdateMany(_, _, _, _, _)
UpdateMany(b, t, set_cols, pk_columns, rows) ==
    IF rows = <<>> THEN {b}
    ELSE UNION { UpdateMany(b2, t, set_cols, pk_columns, Tail(rows)) :
                   b2 \in ExecUpdate(b, t, set_cols, pk_columns, Head(rows)) }

RECURSIVE DeleteMany(_, _, _)
DeleteMany(b, pk_columns, keys) ==
    IF keys = <<>> THEN {b}
    ELSE UNION { DeleteMany(b2, pk_columns, Tail(keys)) :
                   b2 \in ExecDelete(b, pk_columns, Head(keys)) }

\* get_cursor (db.py 51-65): what the destination holds after the block raised
\* with the statements so far uncommitted, and after it committed.
\* Variant in which a failed block keeps what it had executed.
rollback_keeps_partial(committed, uncommitted) == uncommitted

rollback(committed, uncommitted) == committed

commit(committed, uncommitted) == uncommitted

Prefix(s, n) == SubSeq(s, 1, n)

Min(a, b) == IF a < b THEN a ELSE b

\* Variant that deletes first.
sync_with_rowversion_deletes_first == <<"deletes", "inserts", "updates">>

\* The order of the three phases in each strategy's method.
sync_with_rowversion == <<"inserts", "updates", "deletes">>

\* Variant of the hash method that never deletes.
sync_with_hash_without_deletes == <<"inserts", "updates">>

sync_with_hash == <<"inserts", "updates", "deletes">>

PhaseSeq(c) ==
    IF c.change_detection_strategy = CHANGE_DETECTION_ROWVERSION
    THEN sync_with_rowversion ELSE sync_with_hash

CurPhase == PhaseSeq(cfg)[ph]

\* ----------------------------------------------------------------- actions
\* The locals of synchronize() and of the phase methods are gone when it is left.
RunLocalsReset ==
    /\ ph' = 1
    /\ prepared' = FALSE
    /\ queue' = <<>>
    /\ total' = 0
    /\ count' = 0
    /\ inner' = ZeroStats
    /\ returned' = "none"

\* synchronize_tables' except block (sync.py 586-593).
OrchCatch(msg, f) ==
    /\ total_stats' = [total_stats EXCEPT !.failed = @ + 1,
                                          !.errors = Append(@, full_name \o ": " \o msg)]
    /\ pc' = "loop"
    /\ i' = i + 1
    /\ result' = "ERROR"
    /\ failed' = f
    /\ RunLocalsReset

\* synchronize()'s except block (sync.py 183-198), then the orchestrator's.
SyncFail(msg, f) ==
    /\ stats' = [stats EXCEPT !.errors = 1]
    /\ ledger' = update_sync_status(ledger, "dbo", "Orders", "ERROR",
                                    stats.inserted, stats.updated, stats.deleted, msg)
    /\ OrchCatch(msg, f)

\* Variant in which the strategy method returns after the first phase that returns.
PhaseReturn_and_finish(field, n) ==
    /\ inner' = [inner EXCEPT ![field] = n]
    /\ returned' = CurPhase
    /\ prepared' = FALSE
    /\ queue' = <<>>
    /\ total' = 0
    /\ count' = 0
    /\ pc' = "finish" /\ ph' = ph

\* A phase method returns n: the strategy method stores it and calls the next phase.
PhaseReturn(field, n) ==
    /\ inner' = [inner EXCEPT ![field] = n]
    /\ returned' = CurPhase
    /\ prepared' = FALSE
    /\ queue' = <<>>
    /\ total' = 0
    /\ count' = 0
    /\ IF ph = Len(PhaseSeq(cfg))
       THEN pc' = "finish" /\ ph' = ph
       ELSE pc' = "sync" /\ ph' = ph + 1

\* synchronize_tables is called (sync.py 553-561).
SynchronizeTables ==
    /\ pc = "idle"
    /\ runs < MaxRuns
    /\ runs' = runs + 1
    /\ total_stats' = [total_tables |-> Len(table_configs), successful |-> 0, failed |-> 0,
                       total_inserted |-> 0, total_updated |-> 0, total_deleted |-> 0,
                       errors |-> <<>>]
    /\ i' = 1
    /\ pc' = "loop"
    /\ UNCHANGED <<tbl, src, dst, dst_exists, cfg, ledger, ph, prepared, queue, total,
                   count, inner, stats, histVars>>
    /\ UNCHANGED orchVars

\* sync.py 564-565: a configuration that is not selected or not enabled is passed over.
LoopSkip ==
    /\ pc = "loop"
    /\ i <= Len(table_configs)
    /\ ~table_configs[i].is_selected \/ ~table_configs[i].sync_enabled
    /\ i' = i + 1
    /\ UNCHANGED <<tbl, src, dst, dst_exists, cfg, ledger, pc, runs, ph, prepared, queue,
                   total, count, inner, stats, total_stats, histVars>>
    /\ UNCHANGED orchVars

\* sync.py 567-576: the table is taken up.
LoopEnter ==
    /\ pc = "loop"
    /\ i <= Len(table_configs)
    /\ table_configs[i].is_selected /\ table_configs[i].sync_enabled
    /\ pc' = "construct"
    /\ issued' = <<>>
    /\ dst0' = dst
    /\ snap' = dst
    /\ prev_ok' = (result = "SUCCESS")
    /\ result' = "NONE"
    /\ failed' = NoFailure
    /\ returned' = "none"
    /\ UNCHANGED <<tbl, src, dst, dst_exists, cfg, ledger, i, runs, ph, prepared, queue,
                   total, count, inner, stats, total_stats>>
    /\ UNCHANGED orchVars

\* sync.py 595: the aggregate is returned.
LoopReturn ==
    /\ pc = "loop"
    /\ i > Len(table_configs)
    /\ pc' = "idle"
    /\ UNCHANGED <<tbl, src, dst, dst_exists, cfg, ledger, i, runs, ph, prepared, queue,
                   total, count, inner, stats, total_stats, histVars>>
    /\ UNCHANGED orchVars

\* TableSynchronizer.__init__ and _detect_change_strategy (sync.py 19-56); the
\* catalog query may raise, outside synchronize()'s try block.
Construct ==
    /\ pc = "construct"
    /\ \E ok \in BOOLEAN :
         IF ok
         THEN /\ LET rows == rowversion_columns(tbl) IN
                   cfg' = IF rows # <<>>
                          THEN [cfg EXCEPT !.has_rowversion = TRUE,
                                           !.rowversion_column = rows[1],
                                           !.change_detection_strategy = CHANGE_DETECTION_ROWVERSION]
                          ELSE [cfg EXCEPT !.has_rowversion = FALSE,
                                           !.change_detection_strategy = CHANGE_DETECTION_HASH]
              /\ pc' = "ensure"
              /\ stats' = ZeroStats
              /\ UNCHANGED <<ledger, i, ph, prepared, queue, total, count, inner,
                             total_stats, result, failed, returned>>
         ELSE /\ OrchCatch("query failed", [step |-> "detect", msg |-> "query failed"])
              /\ UNCHANGED <<cfg, ledger, stats>>
    /\ UNCHANGED <<tbl, src, dst, dst_exists, runs, issued, dst0, snap, prev_ok>>
    /\ UNCHANGED orchVars

\* sync.py 145-152 with create_table_as_mirror (schema.py 680-715): the statements
\* run in one transaction, rolled back when one of them raises.
EnsureSchema ==
    /\ pc = "ensure"
    /\ IF dst_exists
       THEN /\ pc' = "detect_pk"
            /\ UNCHANGED <<dst_exists, ledger, i, stats, total_stats, result, failed,
                           ph, prepared, queue, total, count, inner, returned>>
       ELSE \E ok \in BOOLEAN :
              IF ok
              THEN /\ dst_exists' = TRUE
                   /\ pc' = "detect_pk"
                   /\ UNCHANGED <<ledger, i, stats, total_stats, result, failed,
                                  ph, prepared, queue, total, count, inner, returned>>
              ELSE /\ SyncFail("mirror failed", [step |-> "ensure", msg |-> "mirror failed"])
                   /\ UNCHANGED dst_exists
    /\ UNCHANGED <<tbl, src, dst, cfg, runs, issued, dst0, snap, prev_ok>>
    /\ UNCHANGED orchVars

\* _get_primary_key_columns (sync.py 58-89), called at sync.py 155.
ResolvePK ==
    /\ pc = "detect_pk"
    /\ IF cfg.primary_key_columns # <<>>
       THEN /\ pc' = "upsert"
            /\ UNCHANGED <<cfg, ledger, i, stats, total_stats, result, failed,
                           ph, prepared, queue, total, count, inner, returned>>
       ELSE IF primary_key_query(tbl) = <<>>
       THEN /\ SyncFail("No se pudo detectar clave primaria",
                     [step |-> "detect_pk", msg |-> "No se pudo detectar clave primaria"])
            /\ UNCHANGED cfg
       ELSE /\ cfg' = [cfg EXCEPT !.primary_key_columns = primary_key_query(tbl),
                                  !.pk_auto_detected = TRUE]
            /\ pc' = "upsert"
            /\ UNCHANGED <<ledger, i, stats, total_stats, result, failed,
                           ph, prepared, queue, total, count, inner, returned>>
    /\ UNCHANGED <<tbl, src, dst, dst_exists, runs, issued, dst0, snap, prev_ok>>
    /\ UNCHANGED orchVars

\* sync.py 157-168: the configuration row is written and the strategy's method entered.
UpsertMetadata ==
    /\ pc = "upsert"
    /\ ledger' = upsert_metadata(ledger, cfg, cfg.change_detection_strategy,
                                 cfg.rowversion_column)
    /\ pc' = "sync"
    /\ ph' = 1
    /\ inner' = ZeroStats
    /\ UNCHANGED <<tbl, src, dst, dst_exists, cfg, i, runs, prepared, queue, total, count,
                   stats, total_stats, histVars>>
    /\ UNCHANGED orchVars

\* What a phase leaves alone while it computes its queue or returns at once.
PrepareFrame ==
    UNCHANGED <<tbl, src, dst, dst_exists, cfg, runs, issued, dst0, prev_ok>>

PrepareNoFail == UNCHANGED <<ledger, i, stats, total_stats, result, failed>>

Enqueue(q) ==
    /\ queue' = q
    /\ total' = Len(q)
    /\ count' = 0
    /\ prepared' = TRUE
    /\ returned' = "none"
    /\ UNCHANGED <<pc, ph, inner>>

\* _perform_inserts and steps 1-3 of _insert_missing_records (sync.py 236-324).
InsertPrepare ==
    /\ pc = "sync" /\ ~prepared /\ CurPhase = "inserts"
    /\ snap' = dst
    /\ PrepareFrame
    /\ LET insertable_cols == get_insertable_columns(tbl)
           pk_columns == cfg.primary_key_columns
           where_clause == build_where_clause(cfg)
       IN \E dest_pks \in execute_query(dst, pk_columns, <<>>),
             all_source_rows \in execute_query(src, insertable_cols, where_clause) :
            LET dest_pk_set == { KeyOf(dest_pks[j], pk_columns) : j \in DOMAIN dest_pks }
            IN IF all_source_rows = <<>>
               THEN PhaseReturn("inserted", 0) /\ PrepareNoFail
               ELSE IF ~HasAttrs(all_source_rows[1], pk_columns)
               THEN SyncFail("AttributeError", [step |-> "inserts", msg |-> "AttributeError"])
               ELSE LET q == rows_to_insert(all_source_rows, dest_pk_set, pk_columns)
                    IN IF q = <<>>
                       THEN PhaseReturn("inserted", 0) /\ PrepareNoFail
                       ELSE Enqueue(q) /\ PrepareNoFail
    /\ UNCHANGED orchVars

\* Steps 1-4 of _perform_updates (sync.py 357-430).
UpdatePrepare ==
    /\ pc = "sync" /\ ~prepared /\ CurPhase = "updates"
    /\ snap' = dst
    /\ PrepareFrame
    /\ LET insertable_cols == get_insertable_columns(tbl)
           pk_columns == cfg.primary_key_columns
           where_clause == build_where_clause(cfg)
           compare_cols == compare_columns(insertable_cols, pk_columns)
       IN IF compare_cols = <<>>
          THEN PhaseReturn("updated", 0) /\ PrepareNoFail
          ELSE \E source_rows \in execute_query(src, insertable_cols, where_clause),
                  dest_rows \in execute_query(dst, insertable_cols, <<>>) :
                 IF source_rows = <<>>
                 THEN PhaseReturn("updated", 0) /\ PrepareNoFail
                 ELSE IF ~HasAttrs(source_rows[1], pk_columns)
                 THEN SyncFail("AttributeError", [step |-> "updates", msg |-> "AttributeError"])
                 ELSE LET q == rows_to_update(source_rows, dest_dict(dest_rows, pk_columns),
                                              pk_columns, compare_cols)
                      IN IF q = <<>>
                         THEN PhaseReturn("updated", 0) /\ PrepareNoFail
                         ELSE Enqueue(q) /\ PrepareNoFail
    /\ UNCHANGED orchVars

\* Steps 1-3 of _perform_deletes (sync.py 473-509).
DeletePrepare ==
    /\ pc = "sync" /\ ~prepared /\ CurPhase = "deletes"
    /\ snap' = dst
    /\ PrepareFrame
    /\ PrepareNoFail
    /\ LET pk_columns == cfg.primary_key_columns
           where_clause == build_where_clause(cfg)
       IN \E source_pks \in execute_query(src, pk_columns, where_clause),
             dest_pks \in execute_query(dst, pk_columns, dest_pk_query_where(where_clause)) :
            LET source_pk_set == { KeyOf(source_pks[j], pk_columns) : j \in DOMAIN source_pks }
                q == pks_to_delete(dest_pks, source_pk_set, pk_columns)
            IN IF q = <<>> THEN PhaseReturn("deleted", 0) ELSE Enqueue(q)
    /\ UNCHANGED orchVars

\* executemany of the phase's statement: the tables that executing the rows of
\* a batch in order can leave before the commit.
execute_batch(op, rows) ==
    LET pk_columns == cfg.primary_key_columns
        insertable_cols == get_insertable_columns(tbl)
    IN IF op = "INSERT" THEN InsertMany(dst, tbl, insertable_cols, rows)
       ELSE IF op = "UPDATE"
       THEN UpdateMany(dst, tbl, compare_columns(insertable_cols, pk_columns), pk_columns, rows)
       ELSE DeleteMany(dst, pk_columns, rows)

\* int((current / total) * 100)
progress_pct(current, total_rows) == (current * 100) \div total_rows

\* Variant that reports the rows of the batch instead of the rows so far.
progress_report_of_batch(batch_start, batch_count, total_rows) ==
    <<"PROGRESS", batch_count, total_rows, progress_pct(batch_count, total_rows)>>

\* The arguments of the call after a batch (sync.py 348-350, 464-466, 529-531):
\* the end of the batch, the size of the phase's list, the percentage.
progress_report(batch_start, batch_count, total_rows) ==
    <<"PROGRESS", batch_start + batch_count, total_rows,
      progress_pct(batch_start + batch_count, total_rows)>>

\* if self.progress_callback: self.progress_callback('PROGRESS', ...)
Report(batch_start, batch_count) ==
    reports' = IF callback.given
               THEN Append(reports, [run |-> runs, phase |-> CurPhase,
                                     args |-> progress_report(batch_start, batch_count, total)])
               ELSE reports

\* Variant that sends all the rows left at once.
batch_slice_unbounded(rows, size) == rows

\* rows[batch_start:batch_start + size], rows being the rows from batch_start on.
batch_slice(rows, size) == Prefix(rows, Min(size, Len(rows)))

\* One pass of a batch loop.  The batch is the first rows of the queue; row
\* number bad raises (0: none does) after the rows before it were executed.
BatchStep(size, field, op, cols) ==
    LET batch == batch_slice(queue, size)
        rest == SubSeq(queue, Len(batch) + 1, Len(queue))
        k == Cardinality({ j \in DOMAIN issued : issued[j].phase = CurPhase /\ issued[j].last }) + 1
    IN \E bad \in 0..Len(batch) :
         IF bad = 0
         THEN \E done \in execute_batch(op, batch) :
                /\ dst' = commit(dst, done)
                /\ issued' = issued \o
                      [j \in DOMAIN batch |->
                          [phase |-> CurPhase, op |-> op, cols |-> cols, params |-> batch[j],
                           batch |-> k, last |-> j = Len(batch)]]
                /\ Report(count, Len(batch))
                /\ IF rest = <<>>
                   THEN PhaseReturn(field, count + Len(batch))
                   ELSE /\ queue' = rest
                        /\ count' = count + Len(batch)
                        /\ UNCHANGED <<pc, ph, prepared, total, inner, returned>>
                /\ UNCHANGED <<ledger, i, stats, total_stats, result, failed>>
         ELSE \E partial \in execute_batch(op, Prefix(batch, bad - 1)) :
                /\ dst' = rollback(dst, partial)
                /\ SyncFail("batch failed",
                            [step |-> CurPhase, msg |-> "batch failed", batch |-> k,
                             rows |-> batch, before |-> dst, applied |-> count])
                /\ UNCHANGED <<issued, reports>>

BatchFrame ==
    UNCHANGED <<tbl, src, dst_exists, cfg, runs, dst0, snap, prev_ok,
                configs, catalog, callback, exists, ddl, applied, events, schemaVars>>

\* Step 4 of _insert_missing_records (sync.py 326-355), one execute_batch.
InsertBatch ==
    /\ pc = "sync" /\ prepared /\ CurPhase = "inserts"
    /\ BatchFrame
    /\ BatchStep(insert_batch_size, "inserted", "INSERT", get_insertable_columns(tbl))

\* Step 5 of _perform_updates (sync.py 432-471), one execute_batch.
UpdateBatch ==
    /\ pc = "sync" /\ prepared /\ CurPhase = "updates"
    /\ BatchFrame
    /\ LET pk_columns == cfg.primary_key_columns
           compare_cols == compare_columns(get_insertable_columns(tbl), pk_columns)
       IN BatchStep(batch_size, "updated", "UPDATE", compare_cols \o pk_columns)

\* Step 4 of _perform_deletes (sync.py 511-536), one execute_batch.
DeleteBatch ==
    /\ pc = "sync" /\ prepared /\ CurPhase = "deletes"
    /\ BatchFrame
    /\ BatchStep(batch_size, "deleted", "DELETE", cfg.primary_key_columns)

\* sync.py 170-181 and, back in synchronize_tables, 578-584.
Finish ==
    /\ pc = "finish"
    /\ stats' = inner
    /\ ledger' = update_sync_status(ledger, "dbo", "Orders", "SUCCESS",
                                    inner.inserted, inner.updated, inner.deleted, None)
    /\ total_stats' = [total_stats EXCEPT !.successful = @ + 1,
                                          !.total_inserted = @ + inner.inserted,
                                          !.total_updated = @ + inner.updated,
                                          !.total_deleted = @ + inner.deleted]
    /\ result' = "SUCCESS"
    /\ pc' = "loop"
    /\ i' = i + 1
    /\ RunLocalsReset
    /\ UNCHANGED <<tbl, src, dst, dst_exists, cfg, runs, issued, dst0, snap, failed, prev_ok>>
    /\ UNCHANGED orchVars

Next ==
    \/ SynchronizeTables
    \/ LoopSkip
    \/ LoopEnter
    \/ LoopReturn
    \/ Construct
    \/ EnsureSchema
    \/ ResolvePK
    \/ UpsertMetadata
    \/ InsertPrepare
    \/ InsertBatch
    \/ UpdatePrepare
    \/ UpdateBatch
    \/ DeletePrepare
    \/ DeleteBatch
    \/ Finish

Spec == Init /\ [][Next]_vars

\* The same runs when synchronize_tables is given a callback, which the
\* orchestrator hands to the TableSynchronizer as its progress_callback
\* (sync.py 571-574), or none.
ProgressSink == [given |-> TRUE, raises |-> {}]

ProgressInit ==
    /\ tbl \in TableDefs
    /\ src \in TableStates(tbl)
    /\ dst_exists \in BOOLEAN
    /\ dst \in IF dst_exists THEN TableStates(tbl) ELSE {EmptyTable(tbl)}
    /\ \E kc \in KeyChoices(tbl), w \in WhereClauses, sel \in BOOLEAN :
          cfg = TableSyncConfig(kc[1], kc[2], w, sel, TRUE)
    /\ callback \in {NoCallback, ProgressSink}
    /\ ledger = {}
    /\ pc = "idle"
    /\ i = 1
    /\ runs = 0
    /\ ph = 1
    /\ prepared = FALSE
    /\ queue = <<>>
    /\ total = 0
    /\ count = 0
    /\ inner = ZeroStats
    /\ stats = ZeroStats
    /\ total_stats = [total_tables |-> 0, successful |-> 0, failed |-> 0,
                      total_inserted |-> 0, total_updated |-> 0, total_deleted |-> 0,
                      errors |-> <<>>]
    /\ issued = <<>>
    /\ dst0 = dst
    /\ snap = dst
    /\ result = "NONE"
    /\ failed = NoFailure
    /\ returned = "none"
    /\ prev_ok = FALSE
    /\ configs = <<>> /\ catalog = <<>> /\ exists = <<>>
    /\ ddl = 0 /\ applied = <<>> /\ events = <<>> /\ reports = <<>>
    /\ NoSchema

ProgressSpec == ProgressInit /\ [][Next]_vars

\* The same runs on a table whose primary key has two columns in an ordinal
\* order that is not the column order, on one whose key is an identity column
\* and on a heap, with the key left to detection or typed in by the user in
\* either order or in part.
KeyTableDefs ==
    { [columns |-> <<ColK, ColV>>, pk_constraint |-> <<"v", "k">>],
      [columns |-> <<ColKIdentity, ColV>>, pk_constraint |-> <<"k">>],
      [columns |-> <<ColK, ColV>>, pk_constraint |-> <<>>] }

KeyListChoices ==
    { <<<<>>, TRUE>>, <<<<"k">>, FALSE>>, <<<<"k", "v">>, FALSE>>, <<<<"v", "k">>, FALSE>> }

KeyInit ==
    /\ tbl \in KeyTableDefs
    /\ src \in TableStates(tbl)
    /\ dst_exists \in BOOLEAN
    /\ dst \in IF dst_exists THEN TableStates(tbl) ELSE {EmptyTable(tbl)}
    /\ \E kc \in KeyListChoices, sel \in BOOLEAN :
          cfg = TableSyncConfig(kc[1], kc[2], "", sel, TRUE)
    /\ ledger = {}
    /\ pc = "idle"
    /\ i = 1
    /\ runs = 0
    /\ ph = 1
    /\ prepared = FALSE
    /\ queue = <<>>
    /\ total = 0
    /\ count = 0
    /\ inner = ZeroStats
    /\ stats = ZeroStats
    /\ total_stats = [total_tables |-> 0, successful |-> 0, failed |-> 0,
                      total_inserted |-> 0, total_updated |-> 0, total_deleted |-> 0,
                      errors |-> <<>>]
    /\ issued = <<>>
    /\ dst0 = dst
    /\ snap = dst
    /\ result = "NONE"
    /\ failed = NoFailure
    /\ returned = "none"
    /\ prev_ok = FALSE
    /\ OneTable

KeySpec == KeyInit /\ [][Next]_vars

\* ============================================================================
\* synchronize_tables on a list of several tables.  The orchestrator, the
\* steps of synchronize() and the mirror creation are as in the code; of the
\* diff only the batches committed and the counts returned are kept.
\* ============================================================================
MaxTables == 2
\* Batches a phase commits at most, and statement batches of a mirror script.
MaxBatches == 1
MaxStatements == 2

TableNames == <<"Orders", "Customers", "Items", "Lines">>

CallbackStatuses == {"SYNCING", "PROGRESS", "SUCCESS", "ERROR"}

Callbacks ==
    {NoCallback} \cup {[given |-> TRUE, raises |-> {}]}
        \cup { [given |-> TRUE, raises |-> {st}] : st \in CallbackStatuses }

\* callback(...) is called with this status and raises.
CallbackRaises(status) == callback.given /\ status \in callback.raises

\* Configurations of the list: with or without a configured key, and, for the
\* flags that make the loop skip a table, without one.
ConfigChoices ==
    { TableSyncConfig(<<>>, TRUE, "", sel, en) : sel \in BOOLEAN, en \in BOOLEAN }
        \cup { TableSyncConfig(<<"k">>, FALSE, "", TRUE, TRUE) }

\* What the source catalog says of a table: no key, a key, a key and a rowversion.
CatalogChoices ==
    { [pk_constraint |-> <<>>, rowversion_columns |-> <<>>],
      [pk_constraint |-> <<"k">>, rowversion_columns |-> <<>>],
      [pk_constraint |-> <<"k">>, rowversion_columns |-> <<"x">>] }

FullName(c) == "[" \o c.schema \o "].[" \o c.table_name \o "]"

ZeroTotals(n) ==
    [total_tables |-> n, successful |-> 0, failed |-> 0,
     total_inserted |-> 0, total_updated |-> 0, total_deleted |-> 0, errors |-> <<>>]

\* The variables of the one-table model, unused here.
detailVars == <<tbl, src, dst, dst_exists, cfg, prepared, queue, total,
                issued, dst0, snap, result, failed, returned, prev_ok, reports, schemaVars>>

\* The ledger row that an earlier successful run of a table left.
PriorRows(c) ==
    update_sync_status(
        upsert_metadata({}, [c EXCEPT !.primary_key_columns = <<"k">>, !.pk_auto_detected = FALSE],
                        CHANGE_DETECTION_HASH, None),
        c.schema, c.table_name, "SUCCESS", 1, 1, 1, None)

\* Variant that forgets sync_enabled, and the test of sync.py 564.
is_processed_if_selected(c) == c.is_selected

is_processed(c) == ~(~c.is_selected \/ ~c.sync_enabled)

ListInit ==
    /\ \E c \in [1..MaxTables -> ConfigChoices] :
          configs = [j \in 1..MaxTables |-> [c[j] EXCEPT !.table_name = TableNames[j]]]
    /\ catalog \in [1..MaxTables -> CatalogChoices]
    /\ callback \in Callbacks
    /\ exists \in [1..MaxTables -> BOOLEAN]
    /\ ddl = 0
    /\ applied = [j \in 1..MaxTables |-> 0]
    /\ events = <<>>
    /\ reports = <<>>
    /\ NoSchema
    /\ \E known \in {{}, {1}} :
          ledger = UNION { PriorRows([TableSyncConfig(<<>>, TRUE, "", TRUE, TRUE)
                                        EXCEPT !.table_name = TableNames[j]]) : j \in known }
    /\ pc = "idle"
    /\ i = 1
    /\ runs = 0
    /\ ph = 1
    /\ count = 0
    /\ inner = ZeroStats
    /\ stats = ZeroStats
    /\ total_stats = ZeroTotals(0)
    /\ tbl = <<>> /\ src = <<>> /\ dst = <<>> /\ dst_exists = FALSE /\ cfg = <<>>
    /\ prepared = FALSE /\ queue = <<>> /\ total = 0
    /\ issued = <<>> /\ dst0 = <<>> /\ snap = <<>> /\ result = "NONE"
    /\ failed = NoFailure /\ returned = "none" /\ prev_ok = FALSE

\* Variant that always answers that the table is absent.
table_exists_never(e, j) == FALSE

\* dest_db.table_exists(schema, table_name) for table j of the list.
table_exists(e, j) == e[j]

\* synchronize_tables' except block (sync.py 586-593): the entry is added to
\* totals ts, then the callback is called with ERROR, outside any try.
ListExcept(msg, ev, ts) ==
    /\ total_stats' = [ts EXCEPT !.failed = @ + 1,
                                 !.errors = Append(@, FullName(configs[i]) \o ": " \o msg)]
    /\ events' = Append(ev, [table |-> i, ev |-> "error", msg |-> msg])
    /\ ph' = 1
    /\ count' = 0
    /\ inner' = ZeroStats
    /\ ddl' = 0
    /\ IF CallbackRaises("ERROR")
       THEN pc' = "raised" /\ i' = i
       ELSE pc' = "loop" /\ i' = i + 1

\* synchronize()'s except block (sync.py 183-198), then the orchestrator's.
TableFail(msg, ev) ==
    /\ stats' = [stats EXCEPT !.errors = 1]
    /\ ledger' = update_sync_status(ledger, configs[i].schema, configs[i].table_name, "ERROR",
                                    stats.inserted, stats.updated, stats.deleted, msg)
    /\ ListExcept(msg, ev, total_stats)

\* synchronize_tables is called (sync.py 553-561).
ListCall ==
    /\ pc = "idle"
    /\ runs' = runs + 1
    /\ total_stats' = ZeroTotals(Len(configs))
    /\ i' = 1
    /\ pc' = "loop"
    /\ UNCHANGED <<ledger, ph, count, inner, stats, orchVars, detailVars>>

\* sync.py 564-565.
ListSkip ==
    /\ pc = "loop"
    /\ i <= Len(configs)
    /\ ~is_processed(configs[i])
    /\ i' = i + 1
    /\ UNCHANGED <<ledger, pc, runs, ph, count, inner, stats, total_stats, orchVars, detailVars>>

\* sync.py 567-569: the try block is entered and the callback told SYNCING.
ListEnter ==
    /\ pc = "loop"
    /\ i <= Len(configs)
    /\ is_processed(configs[i])
    /\ LET ev == Append(events, [table |-> i, ev |-> "begin", existed |-> exists[i],
                                  known |-> \E row \in ledger :
                                      Matches(row, configs[i].schema, configs[i].table_name)])
       IN IF CallbackRaises("SYNCING")
          THEN ListExcept("callback raised", ev, total_stats)
          ELSE /\ events' = ev
               /\ pc' = "construct"
               /\ UNCHANGED <<i, ph, count, inner, ddl, total_stats>>
    /\ applied' = [applied EXCEPT ![i] = 0]
    /\ UNCHANGED <<ledger, runs, stats, configs, catalog, callback, exists, detailVars>>

\* sync.py 595.
ListReturn ==
    /\ pc = "loop"
    /\ i > Len(configs)
    /\ pc' = "returned"
    /\ UNCHANGED <<ledger, i, runs, ph, count, inner, stats, total_stats, orchVars, detailVars>>

\* TableSynchronizer.__init__ and _detect_change_strategy (sync.py 19-56), in
\* the orchestrator's try block but not in synchronize()'s.
TableConstruct ==
    /\ pc = "construct"
    /\ \E outcome \in {"ok", "query failed", "connection lost"} :
         IF outcome = "ok"
         THEN /\ LET rows == catalog[i].rowversion_columns IN
                   configs' = [configs EXCEPT ![i] =
                       IF rows # <<>>
                       THEN [@ EXCEPT !.has_rowversion = TRUE,
                                      !.rowversion_column = rows[1],
                                      !.change_detection_strategy = CHANGE_DETECTION_ROWVERSION]
                       ELSE [@ EXCEPT !.has_rowversion = FALSE,
                                      !.change_detection_strategy = CHANGE_DETECTION_HASH]]
              /\ pc' = "ensure"
              /\ stats' = ZeroStats
              /\ UNCHANGED <<i, ph, count, inner, ddl, total_stats, events>>
         ELSE /\ ListExcept(outcome, events, total_stats)
              /\ UNCHANGED <<configs, stats>>
    /\ UNCHANGED <<ledger, runs, catalog, callback, exists, applied, detailVars>>

\* sync.py 145-152 and steps 1-3 of create_table_as_mirror (schema.py 680-698):
\* the definition is extracted and the transaction begun.
TableEnsure ==
    /\ pc = "ensure"
    /\ IF table_exists(exists, i)
       THEN /\ pc' = "detect_pk"
            /\ UNCHANGED <<ledger, i, ph, count, inner, stats, total_stats, ddl, events>>
       ELSE \E extracted \in BOOLEAN :
              IF extracted
              THEN /\ pc' = "mirror"
                   /\ ddl' = 0
                   /\ UNCHANGED <<ledger, i, ph, count, inner, stats, total_stats, events>>
              ELSE TableFail("mirror failed", events)
    /\ UNCHANGED <<runs, configs, catalog, callback, exists, applied, detailVars>>

\* schema.py 700-706 and 712-715: one batch of the script is executed in the
\* transaction, or raises and the transaction is rolled back.
TableMirrorStatement ==
    /\ pc = "mirror"
    /\ ddl < MaxStatements
    /\ \E ok \in BOOLEAN :
         IF ok
         THEN /\ ddl' = ddl + 1
              /\ events' = Append(events, [table |-> i, ev |-> "ddl"])
              /\ UNCHANGED <<ledger, pc, i, ph, count, inner, stats, total_stats, exists>>
         ELSE /\ exists' = [exists EXCEPT ![i] = rollback(exists[i], ddl > 0)]
              /\ TableFail("mirror failed", events)
    /\ UNCHANGED <<runs, configs, catalog, callback, applied, detailVars>>

\* schema.py 708: the transaction is committed.
TableMirrorCommit ==
    /\ pc = "mirror"
    /\ ddl = MaxStatements
    /\ exists' = [exists EXCEPT ![i] = commit(exists[i], ddl > 0)]
    /\ ddl' = 0
    /\ pc' = "detect_pk"
    /\ UNCHANGED <<ledger, i, runs, ph, count, inner, stats, total_stats,
                   configs, catalog, callback, applied, events, detailVars>>

\* _get_primary_key_columns (sync.py 58-89).
TableResolvePK ==
    /\ pc = "detect_pk"
    /\ IF configs[i].primary_key_columns # <<>>
       THEN /\ pc' = "upsert"
            /\ UNCHANGED <<configs, ledger, i, ph, count, inner, stats, total_stats, ddl, events>>
       ELSE IF catalog[i].pk_constraint = <<>>
       THEN /\ TableFail("No se pudo detectar clave primaria", events)
            /\ UNCHANGED configs
       ELSE /\ configs' = [configs EXCEPT ![i].primary_key_columns = catalog[i].pk_constraint,
                                          ![i].pk_auto_detected = TRUE]
            /\ pc' = "upsert"
            /\ UNCHANGED <<ledger, i, ph, count, inner, stats, total_stats, ddl, events>>
    /\ UNCHANGED <<runs, catalog, callback, exists, applied, detailVars>>

\* sync.py 157-168.
TableUpsert ==
    /\ pc = "upsert"
    /\ ledger' = upsert_metadata(ledger, configs[i], configs[i].change_detection_strategy,
                                 configs[i].rowversion_column)
    /\ pc' = "sync"
    /\ ph' = 1
    /\ count' = 0
    /\ inner' = ZeroStats
    /\ UNCHANGED <<i, runs, stats, total_stats, orchVars, detailVars>>

\* The key of the strategy method's stats that a phase's count is stored under.
StatOf(phase) ==
    IF phase = "inserts" THEN "inserted" ELSE IF phase = "updates" THEN "updated" ELSE "deleted"

\* One pass of a phase's batch loop (sync.py 339-352, 445-468, 521-533): the
\* batch is committed and the callback told PROGRESS, or execute_batch raises.
TableBatch ==
    /\ pc = "sync"
    /\ count < MaxBatches
    /\ \E outcome \in {"ok", "batch failed", "connection lost"} :
         IF outcome = "ok"
         THEN /\ applied' = [applied EXCEPT ![i] = @ + 1]
              /\ LET ev == Append(events, [table |-> i, ev |-> "batch",
                                           phase |-> PhaseSeq(configs[i])[ph]])
                 IN IF CallbackRaises("PROGRESS")
                    THEN TableFail("callback raised", ev)
                    ELSE /\ events' = ev
                         /\ count' = count + 1
                         /\ UNCHANGED <<ledger, pc, i, ph, inner, stats, total_stats, ddl>>
         ELSE /\ TableFail(outcome, events)
              /\ UNCHANGED applied
    /\ UNCHANGED <<runs, configs, catalog, callback, exists, detailVars>>

\* A phase method returns its count and the strategy method stores it.
TablePhaseReturn ==
    /\ pc = "sync"
    /\ inner' = [inner EXCEPT ![StatOf(PhaseSeq(configs[i])[ph])] = count]
    /\ count' = 0
    /\ IF ph = Len(PhaseSeq(configs[i]))
       THEN pc' = "finish" /\ ph' = ph
       ELSE pc' = "sync" /\ ph' = ph + 1
    /\ UNCHANGED <<ledger, i, runs, stats, total_stats, orchVars, detailVars>>

\* Variant that keeps the counts of the last table instead of the sums.
AddTotals_last(ts, s) ==
    [ts EXCEPT !.successful = @ + 1,
               !.total_inserted = s.inserted,
               !.total_updated = s.updated,
               !.total_deleted = s.deleted]

\* sync.py 578-581: a successful table is counted and its counts are summed.
AddTotals(ts, s) ==
    [ts EXCEPT !.successful = @ + 1,
               !.total_inserted = @ + s.inserted,
               !.total_updated = @ + s.updated,
               !.total_deleted = @ + s.deleted]

\* sync.py 170-181, then 578-584: the totals are added and the callback told SUCCESS.
TableFinish ==
    /\ pc = "finish"
    /\ stats' = inner
    /\ ledger' = update_sync_status(ledger, configs[i].schema, configs[i].table_name, "SUCCESS",
                                    inner.inserted, inner.updated, inner.deleted, None)
    /\ LET ts == AddTotals(total_stats, inner)
           ev == Append(events, [table |-> i, ev |-> "success", stats |-> inner])
       IN IF CallbackRaises("SUCCESS")
          THEN ListExcept("callback raised", ev, ts)
          ELSE /\ total_stats' = ts
               /\ events' = ev
               /\ pc' = "loop"
               /\ i' = i + 1
               /\ ph' = 1
               /\ count' = 0
               /\ inner' = ZeroStats
               /\ UNCHANGED ddl
    /\ UNCHANGED <<runs, configs, catalog, callback, exists, applied, detailVars>>

\* reset_table_metadata (metadata.py 277-294), called between runs.
ResetTableMetadata ==
    /\ pc \in {"idle", "returned", "raised"}
    /\ \E j \in DOMAIN configs :
          ledger' = reset_table_metadata(ledger, configs[j].schema, configs[j].table_name)
    /\ UNCHANGED <<pc, i, runs, ph, count, inner, stats, total_stats, orchVars, detailVars>>

ListNext ==
    \/ ListCall
    \/ ListSkip
    \/ ListEnter
    \/ ListReturn
    \/ TableConstruct
    \/ TableEnsure
    \/ TableMirrorStatement
    \/ TableMirrorCommit
    \/ TableResolvePK
    \/ TableUpsert
    \/ TableBatch
    \/ TablePhaseReturn
    \/ TableFinish
    \/ ResetTableMetadata

ListSpec == ListInit /\ [][ListNext]_vars

\* ----------------------------------------------------------------------------
\* Several synchronizations started one after the other from the same window,
\* which keeps its TableSyncConfig objects (ui.py 266, 606, 640), while the
\* source table gains or loses its rowversion column in between.
\* ----------------------------------------------------------------------------
DriftInit ==
    /\ \E pk \in {<<>>, <<"k">>} :
          configs = << [TableSyncConfig(pk, pk = <<>>, "", TRUE, TRUE)
                          EXCEPT !.table_name = TableNames[1]],
                       [TableSyncConfig(<<>>, TRUE, "", FALSE, TRUE)
                          EXCEPT !.table_name = TableNames[2]] >>
    /\ \E c \in CatalogChoices :
          catalog = <<c, [pk_constraint |-> <<"k">>, rowversion_columns |-> <<>>]>>
    /\ callback \in Callbacks
    /\ \E e \in BOOLEAN : exists = <<e, TRUE>>
    /\ ddl = 0
    /\ applied = [j \in 1..MaxTables |-> 0]
    /\ events = <<>>
    /\ reports = <<>>
    /\ NoSchema
    /\ ledger = {}
    /\ pc = "idle"
    /\ i = 1
    /\ runs = 0
    /\ ph = 1
    /\ count = 0
    /\ inner = ZeroStats
    /\ stats = ZeroStats
    /\ total_stats = ZeroTotals(0)
    /\ tbl = <<>> /\ src = <<>> /\ dst = <<>> /\ dst_exists = FALSE /\ cfg = <<>>
    /\ prepared = FALSE /\ queue = <<>> /\ total = 0
    /\ issued = <<>> /\ dst0 = <<>> /\ snap = <<>> /\ result = "NONE"
    /\ failed = NoFailure /\ returned = "none" /\ prev_ok = FALSE

\* ui.py 603-640: the user starts the synchronization again; the worker is
\* given the configuration objects of the run before.
StartAgain ==
    /\ pc \in {"returned", "raised"}
    /\ runs < MaxRuns
    /\ pc' = "idle"
    /\ events' = <<>>
    /\ UNCHANGED <<ledger, i, runs, ph, count, inner, stats, total_stats,
                   configs, catalog, callback, exists, ddl, applied, detailVars>>

\* Between two synchronizations a rowversion column is added to the source
\* table or dropped from it: the catalog query of _detect_change_strategy
\* (sync.py 35-46) finds it, or no longer does.
AlterSource ==
    /\ pc \in {"returned", "raised"}
    /\ runs < MaxRuns
    /\ \E j \in DOMAIN catalog :
          catalog' = [catalog EXCEPT ![j].rowversion_columns =
                          IF @ = <<>> THEN <<"x">> ELSE <<>>]
    /\ UNCHANGED <<ledger, pc, i, runs, ph, count, inner, stats, total_stats,
                   configs, callback, exists, ddl, applied, events, detailVars>>

DriftNext ==
    \/ ListNext
    \/ StartAgain
    \/ AlterSource

DriftSpec == DriftInit /\ [][DriftNext]_vars

\* ============================================================================
\* The operations of SyncMetadataManager on the ledger, called in any order.
\* pc names the last operation and i the table it was called for.
\* ============================================================================
\* The cumulative inserted counter is followed up to this value.
MaxCount == 2

\* Configurations passed to upsert_metadata: table 1 as two dialogs may leave
\* it, table 2 in one way.
LedgerConfigs ==
    { [TableSyncConfig(<<"k">>, FALSE, "", TRUE, TRUE)
         EXCEPT !.table_name = TableNames[1], !.change_detection_strategy = CHANGE_DETECTION_HASH],
      [TableSyncConfig(<<"k">>, TRUE, "v = 'A'", TRUE, TRUE)
         EXCEPT !.table_name = TableNames[1],
                !.change_detection_strategy = CHANGE_DETECTION_ROWVERSION,
                !.has_rowversion = TRUE, !.rowversion_column = "x"],
      [TableSyncConfig(<<"k">>, TRUE, "", TRUE, TRUE)
         EXCEPT !.table_name = TableNames[2], !.change_detection_strategy = CHANGE_DETECTION_HASH] }

\* (status, inserted, updated, deleted, error_message) as synchronize() passes them.
StatusChoices ==
    { <<"SUCCESS", 0, 0, 0, None>>, <<"SUCCESS", 1, 2, 3, None>>,
      <<"ERROR", 0, 0, 0, "batch failed">> }

TableIndex(name) == CHOOSE j \in 1..MaxTables : TableNames[j] = name

LedgerInit ==
    /\ ledger = {}
    /\ pc = "constructed"
    /\ i = 1
    /\ runs = 0
    /\ ph = 1
    /\ count = 0
    /\ inner = ZeroStats
    /\ stats = ZeroStats
    /\ total_stats = ZeroTotals(0)
    /\ OneTable
    /\ tbl = <<>> /\ src = <<>> /\ dst = <<>> /\ dst_exists = FALSE /\ cfg = <<>>
    /\ prepared = FALSE /\ queue = <<>> /\ total = 0
    /\ issued = <<>> /\ dst0 = <<>> /\ snap = <<>> /\ result = "NONE"
    /\ failed = NoFailure /\ returned = "none" /\ prev_ok = FALSE

LedgerFrame == UNCHANGED <<runs, ph, count, inner, stats, total_stats, orchVars, detailVars>>

\* metadata.py 135-172.
LedgerUpsert ==
    /\ \E c \in LedgerConfigs :
          /\ ledger' = upsert_metadata(ledger, c, c.change_detection_strategy, c.rowversion_column)
          /\ i' = TableIndex(c.table_name)
    /\ pc' = "upsert_metadata"
    /\ LedgerFrame

\* metadata.py 174-214.
LedgerUpdateStatus ==
    /\ \E j \in 1..MaxTables, st \in StatusChoices :
          /\ \A row \in ledger :
                Matches(row, "dbo", TableNames[j]) => row.records_inserted + st[2] <= MaxCount
          /\ ledger' = update_sync_status(ledger, "dbo", TableNames[j],
                                          st[1], st[2], st[3], st[4], st[5])
          /\ i' = j
    /\ pc' = "update_sync_status"
    /\ LedgerFrame

\* metadata.py 216-227.
LedgerUpdateRowversion ==
    /\ \E j \in 1..MaxTables :
          /\ ledger' = update_rowversion_synced(ledger, "dbo", TableNames[j], "0x07D1")
          /\ i' = j
    /\ pc' = "update_rowversion_synced"
    /\ LedgerFrame

\* metadata.py 229-240.
LedgerUpdateHash ==
    /\ \E j \in 1..MaxTables :
          /\ ledger' = update_hash_synced(ledger, "dbo", TableNames[j], "9f86d0")
          /\ i' = j
    /\ pc' = "update_hash_synced"
    /\ LedgerFrame

\* metadata.py 277-294.
LedgerReset ==
    /\ \E j \in 1..MaxTables :
          /\ ledger' = reset_table_metadata(ledger, "dbo", TableNames[j])
          /\ i' = j
    /\ pc' = "reset_table_metadata"
    /\ LedgerFrame

LedgerNext ==
    \/ LedgerUpsert
    \/ LedgerUpdateStatus
    \/ LedgerUpdateRowversion
    \/ LedgerUpdateHash
    \/ LedgerReset

LedgerSpec == LedgerInit /\ [][LedgerNext]_vars

\* ============================================================================
\* create_table_as_mirror (schema.py 680-715) for one table in detail: the
\* Schema Extractor reads the source catalog, the Schema Builder renders the
\* statements, the destination runs them as one batch inside a transaction,
\* and the extractor is applied again to the table that results.
\* ============================================================================
\* A row of sys.columns joined with sys.types, sys.identity_columns and
\* sys.computed_columns (schema.py 47-72); column_id is the position in the
\* list.  ISNULL gives seed and increment 0 without identity; a NULL
\* is_persisted reads as FALSE, as the builder's test of it does.
Column(name, type_name, max_length, precision, scale) ==
    [name |-> name, type_name |-> type_name, max_length |-> max_length,
     precision |-> precision, scale |-> scale, is_nullable |-> TRUE,
     is_identity |-> FALSE, is_computed |-> FALSE, is_rowguidcol |-> FALSE,
     identity_seed |-> 0, identity_increment |-> 0, collation_name |-> None,
     computed_definition |-> None, computed_is_persisted |-> FALSE]

DatabaseCollation == "Modern_Spanish_CI_AS"

Text(name, type_name, max_length) ==
    [Column(name, type_name, max_length, 0, 0) EXCEPT !.collation_name = DatabaseCollation]

\* The first column of the table, with and without IDENTITY(1000,5).
IdChoices ==
    { [Column("id", "int", 4, 10, 0) EXCEPT !.is_nullable = FALSE],
      [Column("id", "int", 4, 10, 0) EXCEPT !.is_nullable = FALSE, !.is_identity = TRUE,
                                            !.identity_seed = 1000, !.identity_increment = 5] }

\* The second column: one of each kind of type that sys.columns describes with
\* max_length in bytes, precision and scale.
ColumnChoices ==
    { Text("c", "char", 3), Text("c", "varchar", 5), Text("c", "varchar", -1),
      Text("c", "nchar", 2), Text("c", "nvarchar", 20), Text("c", "nvarchar", -1),
      Text("c", "ntext", 16),
      Column("c", "binary", 4, 0, 0), Column("c", "varbinary", -1, 0, 0),
      Column("c", "decimal", 9, 10, 2), Column("c", "numeric", 5, 5, 0),
      Column("c", "time", 3, 8, 0), Column("c", "datetime2", 8, 27, 7),
      Column("c", "datetimeoffset", 9, 30, 3),
      Column("c", "datetime", 8, 23, 3), Column("c", "float", 8, 53, 0),
      [Column("c", "timestamp", 8, 0, 0) EXCEPT !.is_nullable = FALSE],
      [Column("c", "uniqueidentifier", 16, 0, 0) EXCEPT !.is_rowguidcol = TRUE,
                                                        !.is_nullable = FALSE],
      [Column("c", "int", 4, 10, 0) EXCEPT !.is_computed = TRUE,
                                           !.computed_definition = "([n]*(2))"],
      [Column("c", "int", 4, 10, 0) EXCEPT !.is_computed = TRUE,
                                           !.computed_definition = "([n]*(2))",
                                           !.computed_is_persisted = TRUE] }

\* The third column, which the constraints and indexes of the table are on.
ColN == Column("n", "int", 4, 10, 0)

\* A row of sys.indexes with its sys.index_columns: the key columns in
\* key_ordinal order and the included columns.
KeyColumn(name, is_descending_key) == [name |-> name, is_descending_key |-> is_descending_key]

IndexRow(name, type_desc, is_unique, key_columns) ==
    [name |-> name, type_desc |-> type_desc, is_unique |-> is_unique,
     is_primary_key |-> FALSE, is_unique_constraint |-> FALSE, fill_factor |-> 0,
     has_filter |-> FALSE, filter_definition |-> None,
     key_columns |-> key_columns, included_columns |-> <<>>]

\* The index of a PRIMARY KEY constraint: none, clustered, nonclustered.
PrimaryKeyChoices ==
    { <<>>,
      << [IndexRow("PK_t", "CLUSTERED", TRUE, <<KeyColumn("id", FALSE)>>)
            EXCEPT !.is_primary_key = TRUE] >>,
      << [IndexRow("PK_t", "NONCLUSTERED", TRUE, <<KeyColumn("id", TRUE)>>)
            EXCEPT !.is_primary_key = TRUE] >> }

\* The index of a UNIQUE constraint.
UniqueChoices ==
    { <<>>,
      << [IndexRow("UQ_t_n", "NONCLUSTERED", TRUE, <<KeyColumn("n", FALSE)>>)
            EXCEPT !.is_unique_constraint = TRUE] >> }

\* Indexes that no constraint owns.
IndexChoices ==
    { <<>>,
      << [IndexRow("IX_t_n", "NONCLUSTERED", FALSE, <<KeyColumn("n", TRUE)>>)
            EXCEPT !.included_columns = <<"id">>] >>,
      << [IndexRow("UX_t_n", "NONCLUSTERED", TRUE, <<KeyColumn("n", FALSE)>>)
            EXCEPT !.has_filter = TRUE, !.filter_definition = "([n] IS NOT NULL)",
                   !.fill_factor = 80] >> }

DefaultChoices ==
    { <<>>, << [name |-> "DF_t_n", column_name |-> "n", definition |-> "((0))"] >> }

CheckChoices ==
    { <<>>,
      << [name |-> "CK_t_n", definition |-> "([n]>=(0))", is_disabled |-> FALSE] >>,
      << [name |-> "CK_t_n", definition |-> "([n]>=(0))", is_disabled |-> TRUE] >> }

ForeignKey(delete_action, update_action, is_disabled) ==
    [name |-> "FK_t_parent", referenced_schema |-> "dbo", referenced_table |-> "parent",
     delete_action |-> delete_action, update_action |-> update_action,
     is_disabled |-> is_disabled,
     columns |-> << [parent_column |-> "n", referenced_column |-> "id"] >>]

ForeignKeyChoices ==
    { <<>>, << ForeignKey("CASCADE", "NO_ACTION", FALSE) >>,
      << ForeignKey("NO_ACTION", "SET_NULL", TRUE) >> }

\* The source tables considered, as the catalog views describe them; indexes
\* are in index_id order.
SourceTables ==
    { [exists |-> TRUE, columns |-> <<id, c, ColN>>, indexes |-> pk \o uq \o ix,
       foreign_keys |-> fk, check_constraints |-> ck, default_constraints |-> df] :
        id \in IdChoices, c \in ColumnChoices, pk \in PrimaryKeyChoices,
        uq \in UniqueChoices, ix \in IndexChoices, fk \in ForeignKeyChoices,
        ck \in CheckChoices, df \in DefaultChoices }

\* ---------------------------------------------------------- SchemaExtractor
\* schema.py 45-97.
get_columns(t) ==
    [j \in DOMAIN t.columns |->
        LET row == t.columns[j] IN
        [name |-> row.name, type_name |-> row.type_name, max_length |-> row.max_length,
         precision |-> row.precision, scale |-> row.scale, is_nullable |-> row.is_nullable,
         is_identity |-> row.is_identity, is_computed |-> row.is_computed,
         is_rowguidcol |-> row.is_rowguidcol, identity_seed |-> row.identity_seed,
         identity_increment |-> row.identity_increment,
         collation_name |-> row.collation_name,
         computed_definition |-> row.computed_definition,
         computed_is_persisted |-> row.computed_is_persisted] ]

col_info(key_columns) ==
    [j \in DOMAIN key_columns |->
        [name |-> key_columns[j].name, ordinal |-> j,
         is_descending |-> key_columns[j].is_descending_key] ]

IsPrimaryKey(x) == x.is_primary_key
IsNoPrimaryKey(x) == ~x.is_primary_key
IsUniqueConstraint(x) == x.is_unique_constraint

\* schema.py 99-136: None without a PRIMARY KEY constraint.
NoPrimaryKey == [present |-> FALSE]

get_primary_key(t) ==
    LET rows == SelectSeq(t.indexes, IsPrimaryKey) IN
    IF rows = <<>> THEN NoPrimaryKey
    ELSE [present |-> TRUE, constraint_name |-> rows[1].name,
          index_type |-> rows[1].type_desc, columns |-> col_info(rows[1].key_columns)]

\* schema.py 138-195: every index of the table but the primary key's and the
\* heap; the index of a UNIQUE constraint is one of them.
get_indexes(t) ==
    LET rows == SelectSeq(t.indexes, IsNoPrimaryKey) IN
    [j \in DOMAIN rows |->
        [name |-> rows[j].name, type_desc |-> rows[j].type_desc,
         is_unique |-> rows[j].is_unique, fill_factor |-> rows[j].fill_factor,
         has_filter |-> rows[j].has_filter,
         filter_definition |-> rows[j].filter_definition,
         key_columns |-> col_info(rows[j].key_columns),
         included_columns |->
             [m \in DOMAIN rows[j].included_columns |->
                 [name |-> rows[j].included_columns[m], ordinal |-> 0,
                  is_descending |-> FALSE]] ] ]

\* schema.py 197-243.
get_foreign_keys(t) == t.foreign_keys

\* schema.py 245-262.
get_check_constraints(t) == t.check_constraints

\* schema.py 264-283.
get_default_constraints(t) == t.default_constraints

\* schema.py 285-315.
get_unique_constraints(t) ==
    LET rows == SelectSeq(t.indexes, IsUniqueConstraint) IN
    [j \in DOMAIN rows |->
        [name |-> rows[j].name,
         columns |-> [m \in DOMAIN rows[j].key_columns |-> rows[j].key_columns[m].name]] ]

IsComputed(col) == col.is_computed

\* schema.py 338-357.
get_computed_columns(t) ==
    LET rows == SelectSeq(t.columns, IsComputed) IN
    [j \in DOMAIN rows |->
        [column_name |-> rows[j].name, definition |-> rows[j].computed_definition,
         is_persisted |-> rows[j].computed_is_persisted] ]

\* schema.py 20-43; the object_id is not modelled.
get_table_definition(t) ==
    [exists |-> TRUE,
     columns |-> get_columns(t),
     primary_key |-> get_primary_key(t),
     indexes |-> get_indexes(t),
     foreign_keys |-> get_foreign_keys(t),
     check_constraints |-> get_check_constraints(t),
     default_constraints |-> get_default_constraints(t),
     unique_constraints |-> get_unique_constraints(t),
     triggers |-> <<>>,
     computed_columns |-> get_computed_columns(t)]

\* ------------------------------------------------------------ SchemaBuilder
\* A rendered type: [type_name](MAX), [type_name](params) or [type_name].
Rendered(type_name, max, params) == [type_name |-> type_name, max |-> max, params |-> params]

\* type_name.startswith('n'), for the type names of the first branch.
StartsWithN(type_name) == type_name \in {"nchar", "nvarchar"}

\* Variant that renders the stored length of every type as it is.
get_column_type_in_bytes(col) ==
    LET type_name == col.type_name IN
    IF type_name \in {"char", "varchar", "nchar", "nvarchar", "binary", "varbinary"}
    THEN IF col.max_length = -1 THEN Rendered(type_name, TRUE, <<>>)
         ELSE Rendered(type_name, FALSE, <<col.max_length>>)
    ELSE IF type_name \in {"decimal", "numeric"}
    THEN Rendered(type_name, FALSE, <<col.precision, col.scale>>)
    ELSE IF type_name \in {"time", "datetime2", "datetimeoffset"}
    THEN Rendered(type_name, FALSE, <<col.scale>>)
    ELSE Rendered(type_name, FALSE, <<>>)

\* schema.py 408-432.
get_column_type(col) ==
    LET type_name == col.type_name IN
    IF type_name \in {"char", "varchar", "nchar", "nvarchar", "binary", "varbinary"}
    THEN IF col.max_length = -1 THEN Rendered(type_name, TRUE, <<>>)
         ELSE LET length == IF StartsWithN(type_name) THEN col.max_length \div 2
                            ELSE col.max_length
              IN  Rendered(type_name, FALSE, <<length>>)
    ELSE IF type_name \in {"decimal", "numeric"}
    THEN Rendered(type_name, FALSE, <<col.precision, col.scale>>)
    ELSE IF type_name \in {"time", "datetime2", "datetimeoffset"}
    THEN Rendered(type_name, FALSE, <<col.scale>>)
    ELSE Rendered(type_name, FALSE, <<>>)

\* schema.py 363-406: one statement, a column definition per column.
generate_create_table_script(t) ==
    << [kind |-> "TABLE", head |-> <<"CREATE", "TABLE">>,
        columns |->
          [j \in DOMAIN t.columns |->
             LET col == t.columns[j] IN
             IF col.is_computed
             THEN [name |-> col.name, computed |-> TRUE, as |-> col.computed_definition,
                   persisted |-> col.computed_is_persisted]
             ELSE [name |-> col.name, computed |-> FALSE, type |-> get_column_type(col),
                   collate |-> col.collation_name,
                   identity |-> IF col.is_identity
                                THEN <<col.identity_seed, col.identity_increment>>
                                ELSE <<>>,
                   rowguidcol |-> col.is_rowguidcol,
                   null |-> col.is_nullable] ] ] >>

\* "CLUSTERED" in index_type: both "CLUSTERED" and "NONCLUSTERED" contain it.
ContainsClustered(index_type) == index_type \in {"CLUSTERED", "NONCLUSTERED"}

\* ASC or DESC after each key column.
col_spec(columns) ==
    [j \in DOMAIN columns |->
        [name |-> columns[j].name,
         direction |-> IF columns[j].is_descending THEN "DESC" ELSE "ASC"] ]

\* schema.py 434-459.
generate_primary_key_script(pk_def) ==
    IF ~pk_def.present THEN <<>>
    ELSE LET pk_type == IF ContainsClustered(pk_def.index_type) THEN "CLUSTERED"
                        ELSE "NONCLUSTERED"
         IN  << [kind |-> "PRIMARY KEY",
                 head |-> <<"ALTER", "TABLE", "ADD", "CONSTRAINT", "PRIMARY", "KEY", pk_type>>,
                 name |-> pk_def.constraint_name,
                 columns |-> col_spec(pk_def.columns)] >>

\* schema.py 461-502: CREATE, UNIQUE if unique, the type_desc, the name.
generate_indexes_scripts(indexes) ==
    [j \in DOMAIN indexes |->
        LET idx == indexes[j] IN
        [kind |-> "INDEX",
         head |-> <<"CREATE">> \o (IF idx.is_unique THEN <<"UNIQUE">> ELSE <<>>)
                  \o <<idx.type_desc>>,
         name |-> idx.name,
         columns |-> col_spec(idx.key_columns),
         include |-> [m \in DOMAIN idx.included_columns |-> idx.included_columns[m].name],
         where |-> IF idx.has_filter /\ idx.filter_definition # None
                   THEN idx.filter_definition ELSE None,
         fillfactor |-> IF idx.fill_factor > 0 THEN idx.fill_factor ELSE 0] ]

RECURSIVE Flatten(_)
Flatten(ss) == IF ss = <<>> THEN <<>> ELSE Head(ss) \o Flatten(Tail(ss))

NoCheck(kind, name) ==
    [kind |-> kind, head |-> <<"ALTER", "TABLE", "NOCHECK", "CONSTRAINT">>, name |-> name]

\* schema.py 504-535: a second statement disables a disabled constraint.
generate_foreign_keys_scripts(fks) ==
    Flatten([j \in DOMAIN fks |->
        LET fk == fks[j] IN
        << [kind |-> "FOREIGN KEY",
            head |-> <<"ALTER", "TABLE", "ADD", "CONSTRAINT", "FOREIGN", "KEY">>,
            name |-> fk.name,
            columns |-> [m \in DOMAIN fk.columns |-> fk.columns[m].parent_column],
            referenced_schema |-> fk.referenced_schema,
            referenced_table |-> fk.referenced_table,
            references |-> [m \in DOMAIN fk.columns |-> fk.columns[m].referenced_column],
            on_delete |-> fk.delete_action,
            on_update |-> fk.update_action] >>
        \o (IF fk.is_disabled THEN <<NoCheck("FOREIGN KEY", fk.name)>> ELSE <<>>) ])

\* schema.py 537-553.
generate_check_constraints_scripts(checks) ==
    Flatten([j \in DOMAIN checks |->
        LET chk == checks[j] IN
        << [kind |-> "CHECK", head |-> <<"ALTER", "TABLE", "ADD", "CONSTRAINT", "CHECK">>,
            name |-> chk.name, definition |-> chk.definition] >>
        \o (IF chk.is_disabled THEN <<NoCheck("CHECK", chk.name)>> ELSE <<>>) ])

\* schema.py 555-568.
generate_default_constraints_scripts(defaults) ==
    [j \in DOMAIN defaults |->
        [kind |-> "DEFAULT", head |-> <<"ALTER", "TABLE", "ADD", "CONSTRAINT", "DEFAULT">>,
         name |-> defaults[j].name, definition |-> defaults[j].definition,
         column |-> defaults[j].column_name] ]

\* schema.py 570-584: the column names only.
generate_unique_constraints_scripts(uniques) ==
    [j \in DOMAIN uniques |->
        [kind |-> "UNIQUE", head |-> <<"ALTER", "TABLE", "ADD", "CONSTRAINT", "UNIQUE">>,
         name |-> uniques[j].name, columns |-> uniques[j].columns] ]

\* schema.py 586-601.
generate_triggers_scripts(triggers) ==
    Flatten([j \in DOMAIN triggers |->
        << [kind |-> "TRIGGER", head |-> <<"CREATE", "TRIGGER">>,
            name |-> triggers[j].name] >>
        \o (IF triggers[j].is_disabled
            THEN << [kind |-> "TRIGGER", head |-> <<"DISABLE", "TRIGGER">>,
                     name |-> triggers[j].name] >>
            ELSE <<>>) ])

\* Variant that creates the foreign keys before the indexes.
generate_full_table_script_keys_first(t) ==
    generate_create_table_script(t)
    \o generate_primary_key_script(t.primary_key)
    \o generate_unique_constraints_scripts(t.unique_constraints)
    \o generate_default_constraints_scripts(t.default_constraints)
    \o generate_check_constraints_scripts(t.check_constraints)
    \o generate_foreign_keys_scripts(t.foreign_keys)
    \o generate_indexes_scripts(t.indexes)
    \o generate_triggers_scripts(t.triggers)

\* schema.py 603-677: the statements of the script, without its comment lines;
\* a section with nothing in it adds nothing.
generate_full_table_script(t) ==
    generate_create_table_script(t)
    \o generate_primary_key_script(t.primary_key)
    \o generate_unique_constraints_scripts(t.unique_constraints)
    \o generate_default_constraints_scripts(t.default_constraints)
    \o generate_check_constraints_scripts(t.check_constraints)
    \o generate_indexes_scripts(t.indexes)
    \o generate_foreign_keys_scripts(t.foreign_keys)
    \o generate_triggers_scripts(t.triggers)

\* ------------------------------------------------ the destination's reading
\* CREATE [UNIQUE] [CLUSTERED | NONCLUSTERED] INDEX name ON ...: the batch is
\* compiled before any statement of it runs, and a statement that is not of
\* the grammar fails the whole batch.
Compiles(st) ==
    st.kind = "INDEX" => \E j \in DOMAIN st.head : st.head[j] = "INDEX"

\* max_length, precision and scale that the catalog records for a type.
DecimalBytes(p) == IF p <= 9 THEN 5 ELSE IF p <= 19 THEN 9 ELSE IF p <= 28 THEN 13 ELSE 17

FractionBytes(s) == IF s <= 2 THEN 0 ELSE IF s <= 4 THEN 1 ELSE 2

Param(ty, j, default) == IF Len(ty.params) >= j THEN ty.params[j] ELSE default

Sizes(ty) ==
    LET n == ty.type_name IN
    IF n \in {"char", "varchar", "binary", "varbinary"}
    THEN <<IF ty.max THEN -1 ELSE Param(ty, 1, 1), 0, 0>>
    ELSE IF n \in {"nchar", "nvarchar"}
    THEN <<IF ty.max THEN -1 ELSE 2 * Param(ty, 1, 1), 0, 0>>
    ELSE IF n \in {"decimal", "numeric"}
    THEN <<DecimalBytes(Param(ty, 1, 18)), Param(ty, 1, 18), Param(ty, 2, 0)>>
    ELSE IF n = "time"
    THEN LET s == Param(ty, 1, 7) IN <<3 + FractionBytes(s), IF s = 0 THEN 8 ELSE 9 + s, s>>
    ELSE IF n = "datetime2"
    THEN LET s == Param(ty, 1, 7) IN <<6 + FractionBytes(s), IF s = 0 THEN 19 ELSE 20 + s, s>>
    ELSE IF n = "datetimeoffset"
    THEN LET s == Param(ty, 1, 7) IN <<8 + FractionBytes(s), IF s = 0 THEN 26 ELSE 27 + s, s>>
    ELSE IF n = "int" THEN <<4, 10, 0>>
    ELSE IF n = "datetime" THEN <<8, 23, 3>>
    ELSE IF n = "float" THEN <<8, 53, 0>>
    ELSE IF n = "ntext" THEN <<16, 0, 0>>
    ELSE IF n = "timestamp" THEN <<8, 0, 0>>
    ELSE <<16, 0, 0>>

HasCollation(type_name) ==
    type_name \in {"char", "varchar", "nchar", "nvarchar", "ntext"}

\* The sys.columns row of a column definition; a computed column takes its
\* type from its expression.
StoredColumn(d) ==
    IF d.computed
    THEN [Column(d.name, "int", 4, 10, 0) EXCEPT !.is_computed = TRUE,
                                                 !.computed_definition = d.as,
                                                 !.computed_is_persisted = d.persisted]
    ELSE LET s == Sizes(d.type) IN
         [Column(d.name, d.type.type_name, s[1], s[2], s[3]) EXCEPT
             !.is_nullable = d.null,
             !.is_identity = d.identity # <<>>,
             !.identity_seed = IF d.identity # <<>> THEN d.identity[1] ELSE 0,
             !.identity_increment = IF d.identity # <<>> THEN d.identity[2] ELSE 0,
             !.is_rowguidcol = d.rowguidcol,
             !.collation_name = IF d.collate # None THEN d.collate
                                ELSE IF HasCollation(d.type.type_name) THEN DatabaseCollation
                                ELSE None]

KeyColumnsOf(columns) ==
    [j \in DOMAIN columns |-> KeyColumn(columns[j].name, columns[j].direction = "DESC")]

AscendingKeys(names) == [j \in DOMAIN names |-> KeyColumn(names[j], FALSE)]

\* A clustered index is index 1 of the table.
AddIndex(indexes, row) ==
    IF row.type_desc = "CLUSTERED" THEN <<row>> \o indexes ELSE Append(indexes, row)

Disable(constraints, name) ==
    [j \in DOMAIN constraints |->
        IF constraints[j].name = name THEN [constraints[j] EXCEPT !.is_disabled = TRUE]
        ELSE constraints[j]]

\* What one statement does to the catalog's description of the table.
Execute(t, st) ==
    IF st.kind = "TABLE"
    THEN [exists |-> TRUE,
          columns |-> [j \in DOMAIN st.columns |-> StoredColumn(st.columns[j])],
          indexes |-> <<>>, foreign_keys |-> <<>>, check_constraints |-> <<>>,
          default_constraints |-> <<>>]
    ELSE IF st.kind = "PRIMARY KEY"
    THEN [t EXCEPT !.indexes =
            AddIndex(@, [IndexRow(st.name, st.head[Len(st.head)], TRUE, KeyColumnsOf(st.columns))
                           EXCEPT !.is_primary_key = TRUE])]
    ELSE IF st.kind = "UNIQUE"
    THEN [t EXCEPT !.indexes =
            AddIndex(@, [IndexRow(st.name, "NONCLUSTERED", TRUE, AscendingKeys(st.columns))
                           EXCEPT !.is_unique_constraint = TRUE])]
    ELSE IF st.kind = "DEFAULT"
    THEN [t EXCEPT !.default_constraints =
            Append(@, [name |-> st.name, column_name |-> st.column,
                       definition |-> st.definition])]
    ELSE IF st.kind = "CHECK"
    THEN IF st.head[3] = "NOCHECK"
         THEN [t EXCEPT !.check_constraints = Disable(@, st.name)]
         ELSE [t EXCEPT !.check_constraints =
                 Append(@, [name |-> st.name, definition |-> st.definition,
                            is_disabled |-> FALSE])]
    ELSE IF st.kind = "INDEX"
    THEN [t EXCEPT !.indexes =
            AddIndex(@, [IndexRow(st.name, st.head[Len(st.head) - 1],
                                  st.head[2] = "UNIQUE", KeyColumnsOf(st.columns))
                           EXCEPT !.included_columns = st.include,
                                  !.has_filter = st.where # None,
                                  !.filter_definition = st.where,
                                  !.fill_factor = st.fillfactor])]
    ELSE IF st.kind = "FOREIGN KEY"
    THEN IF st.head[3] = "NOCHECK"
         THEN [t EXCEPT !.foreign_keys = Disable(@, st.name)]
         ELSE [t EXCEPT !.foreign_keys =
                 Append(@, [name |-> st.name, referenced_schema |-> st.referenced_schema,
                            referenced_table |-> st.referenced_table,
                            delete_action |-> st.on_delete, update_action |-> st.on_update,
                            is_disabled |-> FALSE,
                            columns |-> [m \in DOMAIN st.columns |->
                                           [parent_column |-> st.columns[m],
                                            referenced_column |-> st.references[m]]]])]
    ELSE t

RECURSIVE ExecuteAll(_, _)
ExecuteAll(t, script) ==
    IF script = <<>> THEN t ELSE ExecuteAll(Execute(t, Head(script)), Tail(script))

\* ------------------------------------------------------------------ actions
SchemaInit ==
    /\ source_table \in SourceTables
    /\ table_def = NoTable
    /\ ddl_script = <<>>
    /\ mirror = NoTable
    /\ mirror_def = NoTable
    /\ pc = "create_table_as_mirror"
    /\ ledger = {}
    /\ i = 1
    /\ runs = 0
    /\ ph = 1
    /\ count = 0
    /\ inner = ZeroStats
    /\ stats = ZeroStats
    /\ total_stats = ZeroTotals(0)
    /\ configs = <<>> /\ catalog = <<>> /\ callback = NoCallback /\ exists = <<>>
    /\ ddl = 0 /\ applied = <<>> /\ events = <<>> /\ reports = <<>>
    /\ tbl = <<>> /\ src = <<>> /\ dst = <<>> /\ dst_exists = FALSE /\ cfg = <<>>
    /\ prepared = FALSE /\ queue = <<>> /\ total = 0
    /\ issued = <<>> /\ dst0 = <<>> /\ snap = <<>> /\ result = "NONE"
    /\ failed = NoFailure /\ returned = "none" /\ prev_ok = FALSE

SchemaFrame ==
    UNCHANGED <<tbl, src, dst, dst_exists, cfg, ledger, i, runs, ph, prepared, queue, total,
                count, inner, stats, total_stats, histVars,
                configs, catalog, callback, exists, ddl, applied, events, reports,
                source_table>>

\* schema.py 690-691.
ExtractDefinition ==
    /\ pc = "create_table_as_mirror"
    /\ table_def' = get_table_definition(source_table)
    /\ pc' = "extracted"
    /\ UNCHANGED <<ddl_script, mirror, mirror_def>>
    /\ SchemaFrame

\* schema.py 694.
GenerateScript ==
    /\ pc = "extracted"
    /\ ddl_script' = generate_full_table_script(table_def)
    /\ pc' = "generated"
    /\ UNCHANGED <<table_def, mirror, mirror_def>>
    /\ SchemaFrame

\* schema.py 697-715: the script has no GO line, so it is one batch; the batch
\* runs and is committed, or it fails and the transaction is rolled back.
ExecuteScript ==
    /\ pc = "generated"
    /\ \/ /\ \A j \in DOMAIN ddl_script : Compiles(ddl_script[j])
          /\ mirror' = ExecuteAll(mirror, ddl_script)
          /\ pc' = "committed"
       \/ /\ \E j \in DOMAIN ddl_script : ~Compiles(ddl_script[j])
          /\ mirror' = mirror
          /\ pc' = "rolled_back"
    /\ UNCHANGED <<table_def, ddl_script, mirror_def>>
    /\ SchemaFrame

\* schema.py 20-43, on the destination.
ExtractMirror ==
    /\ pc = "committed"
    /\ mirror_def' = get_table_definition(mirror)
    /\ pc' = "extracted_again"
    /\ UNCHANGED <<table_def, ddl_script, mirror>>
    /\ SchemaFrame

SchemaNext ==
    \/ ExtractDefinition
    \/ GenerateScript
    \/ ExecuteScript
    \/ ExtractMirror

SchemaSpec == SchemaInit /\ [][SchemaNext]_vars

\* ------------------------------------------------------------------ claims
\* Notions the claims are stated with.
Pk == cfg.primary_key_columns

Where == build_where_clause(cfg)

InScope(b) == { r \in Rows(b) : Satisfies(r, Where) }

\* No two rows among S (rows of table b) have the same key tuple.
KeyUnique(b, S) ==
    /\ \A r \in S : b[r] = 1
    /\ \A r1, r2 \in S : KeyOf(r1, Pk) = KeyOf(r2, Pk) => r1 = r2

InsertableNames ==
    { tbl.columns[j].name : j \in { j \in DOMAIN tbl.columns :
        /\ ~tbl.columns[j].is_computed
        /\ ~tbl.columns[j].is_identity
        /\ tbl.columns[j].type \notin {"timestamp", "rowversion"} } }

SameOn(r1, r2, names) == \A c \in names : r1[c] = r2[c]

KV(b) == { <<r.k, r.v>> : r \in Rows(b) }

\* The destination mirrors the source within the filter scope.
Mirrored ==
    /\ \A s \in InScope(src) : \E d \in Rows(dst) :
          KeyOf(d, Pk) = KeyOf(s, Pk) /\ SameOn(d, s, InsertableNames)
    /\ \A d \in InScope(dst) : \E s \in InScope(src) : KeyOf(d, Pk) = KeyOf(s, Pk)

\* The scenario of the specification: {(1,A),(2,B)} into an empty destination.
OrdersScenario ==
    /\ cfg.where_clause = ""
    /\ KV(src) = {<<1, "A">>, <<2, "B">>} /\ Size(src) = 2
    /\ Size(dst0) = 0

OrdersOutcome ==
    /\ KV(dst) = {<<1, "A">>, <<2, "B">>} /\ Size(dst) = 2
    /\ stats.inserted = 2 /\ stats.updated = 0 /\ stats.deleted = 0

\* C1 as stated: after a successful run the destination mirrors the source
\* within the filter scope, and the Orders scenario gives inserted=2, updated=0,
\* deleted=0.  Fails when two source rows in scope share the configured key.
C1_MirrorAnyKey ==
    result = "SUCCESS" => Mirrored /\ (OrdersScenario => OrdersOutcome)

\* C1 amended: the same, for a source whose rows in the filter scope have
\* pairwise different key tuples (as a primary-key constraint guarantees).
C1_Mirror ==
    result = "SUCCESS" /\ KeyUnique(src, InScope(src))
        => Mirrored /\ (OrdersScenario => OrdersOutcome)

C1_Witness ==
    /\ result = "SUCCESS"
    /\ OrdersScenario
    /\ stats.inserted = 2
    /\ tbl.pk_constraint # <<>>

\* The statements of this run, by kind and key.
IssuedOf(op) == { j \in DOMAIN issued : issued[j].op = op }

KeysOf(S) == { KeyOf(r, Pk) : r \in S }

NoChange == stats.inserted = 0 /\ stats.updated = 0 /\ stats.deleted = 0

\* C2: the delete phase never removes a destination row that does not satisfy
\* the filter predicate, whatever the filter and the key column list.
C2_DeleteStaysInScope ==
    pc \in {"sync", "finish"} /\ CurPhase = "deletes" /\ (prepared \/ returned = "deletes")
        => \A r \in DOMAIN dst : ~Satisfies(r, Where) => dst[r] >= snap[r]

\* C3 as stated: a run that follows a successful run, with the source
\* unchanged in between, reports zero changes and leaves the destination as it
\* was, for every key column list.
C3_IdempotentAnyKey ==
    result = "SUCCESS" /\ prev_ok => NoChange /\ dst = dst0

\* C3 amended: the same, when no two source rows in the filter scope and no
\* two destination rows share a key tuple.
C3_Idempotent ==
    result = "SUCCESS" /\ prev_ok /\ KeyUnique(src, InScope(src)) /\ KeyUnique(dst0, Rows(dst0))
        => NoChange /\ dst = dst0

C3_Witness ==
    /\ result = "SUCCESS" /\ prev_ok /\ NoChange
    /\ cfg.where_clause # ""
    /\ \E row \in ledger :
          row.records_inserted > 0 /\ row.records_deleted > 0

\* The source rows in scope whose key the destination lacked when the insert phase began.
MissingRows == { r \in InScope(src) : KeyOf(r, Pk) \notin KeysOf(Rows(snap)) }

\* C4: the insert phase issues exactly one INSERT for each source row in scope
\* whose key was absent from the destination when the phase began, none for
\* any other row, and returns the number of these rows.
C4_InsertSet ==
    returned = "inserts" =>
        LET cols == get_insertable_columns(tbl) IN
        /\ \A j \in IssuedOf("INSERT") :
              \E r \in MissingRows : Project(r, cols) = issued[j].params
        /\ \A r \in MissingRows :
              Cardinality({ j \in IssuedOf("INSERT") : issued[j].params = Project(r, cols) })
                = SumOver(src, { q \in MissingRows : Project(q, cols) = Project(r, cols) })
        /\ inner.inserted = SumOver(src, MissingRows)

C4_Witness ==
    /\ returned = "inserts"
    /\ inner.inserted = 1
    /\ \E r \in InScope(src) : KeyOf(r, Pk) \in KeysOf(Rows(snap))

UpdatesOfKey(key) == { j \in IssuedOf("UPDATE") : KeyOf(issued[j].params, Pk) = key }

NonKeyNames == Range(ColNames(tbl)) \ Range(Pk)

\* C5 as stated: every row (in the filter scope) with the same key on both
\* sides that differs in at least one non-key column gets exactly one UPDATE
\* and then equals the source row; a row equal on all non-key columns gets
\* none; the count is the number of the former.
C5_UpdateSetAnyColumn ==
    returned = "updates" =>
        /\ \A s \in InScope(src) : \A d \in Rows(snap) :
              KeyOf(s, Pk) = KeyOf(d, Pk) =>
                IF SameOn(s, d, NonKeyNames)
                THEN UpdatesOfKey(KeyOf(s, Pk)) = {}
                ELSE /\ Cardinality(UpdatesOfKey(KeyOf(s, Pk))) = 1
                     /\ s \in Rows(dst)
        /\ inner.updated = Cardinality({ s \in InScope(src) : \E d \in Rows(snap) :
                               KeyOf(s, Pk) = KeyOf(d, Pk) /\ ~SameOn(s, d, NonKeyNames) })

\* C5 amended: the same with "non-key column" read as "insertable non-key
\* column" and equality after the update on the insertable columns, when no two
\* source rows in scope and no two destination rows share a key tuple.
C5_UpdateSet ==
    returned = "updates" /\ KeyUnique(src, InScope(src)) /\ KeyUnique(snap, Rows(snap)) =>
        /\ \A s \in InScope(src) : \A d \in Rows(snap) :
              KeyOf(s, Pk) = KeyOf(d, Pk) =>
                IF SameOn(s, d, InsertableNames \ Range(Pk))
                THEN UpdatesOfKey(KeyOf(s, Pk)) = {}
                ELSE /\ Cardinality(UpdatesOfKey(KeyOf(s, Pk))) = 1
                     /\ \E d2 \in Rows(dst) :
                           KeyOf(d2, Pk) = KeyOf(s, Pk) /\ SameOn(d2, s, InsertableNames)
        /\ inner.updated = Cardinality({ s \in InScope(src) : \E d \in Rows(snap) :
                               /\ KeyOf(s, Pk) = KeyOf(d, Pk)
                               /\ ~SameOn(s, d, InsertableNames \ Range(Pk)) })

C5_Witness ==
    /\ returned = "updates"
    /\ KeyUnique(src, InScope(src)) /\ KeyUnique(snap, Rows(snap))
    /\ inner.updated = 1
    /\ \E s \in InScope(src) : \E d \in Rows(snap) :
          KeyOf(s, Pk) = KeyOf(d, Pk) /\ SameOn(s, d, InsertableNames \ Range(Pk))

\* C6: the delete phase issues exactly one DELETE for each destination row in
\* scope whose key the source in scope lacks, none for a row whose key it has,
\* and returns the number of destination rows removed.
C6_DeleteSet ==
    returned = "deletes" =>
        LET gone == { d \in InScope(snap) : KeyOf(d, Pk) \notin KeysOf(InScope(src)) } IN
        /\ \A j \in IssuedOf("DELETE") : issued[j].params \in KeysOf(gone)
        /\ \A d \in gone :
              Cardinality({ j \in IssuedOf("DELETE") : issued[j].params = KeyOf(d, Pk) })
                = SumOver(snap, { q \in gone : KeyOf(q, Pk) = KeyOf(d, Pk) })
        /\ inner.deleted = Size(snap) - Size(dst)

\* C7: the column list of every INSERT issued is the set of the table's
\* columns that are not computed, not identity and not of a row-version type.
C7_InsertColumns ==
    \A j \in IssuedOf("INSERT") : Range(issued[j].cols) = InsertableNames

C7_Witness ==
    /\ IssuedOf("INSERT") # {}
    /\ HasX(tbl) /\ XColumn(tbl).is_identity

PhaseRank(p) == IF p = "inserts" THEN 1 ELSE IF p = "updates" THEN 2 ELSE 3

ApplyIssued(b, e) ==
    IF e.op = "INSERT" THEN ExecInsert(b, tbl, e.cols, e.params)
    ELSE IF e.op = "UPDATE"
    THEN ExecUpdate(b, tbl, compare_columns(get_insertable_columns(tbl), Pk), Pk, e.params)
    ELSE ExecDelete(b, Pk, e.params)

RECURSIVE Replay(_, _)
Replay(S, log) ==
    IF log = <<>> THEN S
    ELSE Replay(UNION { ApplyIssued(b, Head(log)) : b \in S }, Tail(log))

BatchFailed == "batch" \in DOMAIN failed

\* C9: when batch k of a phase fails, the destination holds exactly the effect
\* of the earlier phases and of batches 1..k-1, nothing of batch k, and the run
\* executes no further batch or phase.
C9_BatchCommit ==
    BatchFailed =>
        /\ dst = failed.before
        /\ dst \in Replay({dst0}, issued)
        /\ \A j \in DOMAIN issued :
              \/ PhaseRank(issued[j].phase) < PhaseRank(failed.step)
              \/ issued[j].phase = failed.step /\ issued[j].batch < failed.batch
        /\ Cardinality({ j \in DOMAIN issued : issued[j].phase = failed.step /\ issued[j].last })
             = failed.batch - 1
        /\ pc \notin {"sync", "finish"}
        /\ result = "ERROR"

C9_Witness ==
    /\ BatchFailed
    /\ failed.batch = 2
    /\ \E j \in DOMAIN issued : issued[j].phase # failed.step

\* C10: every per-table failure leaves the table's ledger row with status
\* ERROR and the error's message, and adds one entry to the aggregate's errors.
C10_FailureRecorded ==
    result = "ERROR" =>
        /\ \E row \in ledger :
              /\ Matches(row, "dbo", "Orders")
              /\ row.last_sync_status = "ERROR"
              /\ row.last_error_message = failed.msg
        /\ Len(total_stats.errors) = 1

\* C11: when a run fails after batches were committed, the ERROR update adds the
\* counts of the changes already applied in that run to the cumulative counters
\* (stated for the first run, when the counters started at zero).
C11_PartialCounters ==
    BatchFailed /\ runs = 1 =>
        \E row \in ledger :
            /\ Matches(row, "dbo", "Orders")
            /\ row.last_sync_status = "ERROR"
            /\ row.records_inserted = Cardinality(IssuedOf("INSERT"))
            /\ row.records_updated = Cardinality(IssuedOf("UPDATE"))
            /\ row.records_deleted = Cardinality(IssuedOf("DELETE"))

\* ------------------------------------------- claims on the list of tables
\* Notions the claims on synchronize_tables are stated with.
Processed(j) == configs[j].is_selected /\ configs[j].sync_enabled

EventsOf(j, kind) == { n \in DOMAIN events : events[n].table = j /\ events[n].ev = kind }

Attempts(j) == Cardinality(EventsOf(j, "begin"))

Over == pc \in {"returned", "raised"}

EndedBefore(j, n) ==
    \E m \in DOMAIN events :
        m < n /\ events[m].table = j /\ events[m].ev \in {"success", "error"}

LedgerRows(j) == { row \in ledger : Matches(row, configs[j].schema, configs[j].table_name) }

\* Every selected and enabled table after j has been attempted.
LaterAttempted(j) == \A k \in DOMAIN configs : k > j /\ Processed(k) => Attempts(k) = 1

\* C12: the selected and enabled tables are processed one at a time in input
\* order, each attempted exactly once, table j ended before any later table
\* begins, and when synchronize_tables is over every one of them was attempted,
\* whatever failed before it.
C12_Sequential ==
    /\ \A j \in DOMAIN configs : Attempts(j) <= (IF Processed(j) THEN 1 ELSE 0)
    /\ \A n, m \in DOMAIN events : n < m => events[n].table <= events[m].table
    /\ \A m \in DOMAIN events :
          events[m].ev = "begin" =>
              \A j \in DOMAIN configs :
                  j < events[m].table /\ Processed(j) => EndedBefore(j, m)
    /\ Over => \A j \in DOMAIN configs : Processed(j) => Attempts(j) = 1

\* C13: while synchronize_tables runs, a table that is not selected or not
\* enabled is left alone: no step is taken for it, and its destination table
\* and its ledger row stay as they are.
C13_SkippedUntouched ==
    [][ pc \notin {"idle", "returned", "raised"} =>
          \A j \in DOMAIN configs :
              ~Processed(j) =>
                  /\ \A n \in DOMAIN events' : events'[n].table # j
                  /\ exists'[j] = exists[j] /\ applied'[j] = applied[j]
                  /\ { row \in ledger' : Matches(row, configs[j].schema, configs[j].table_name) }
                        = LedgerRows(j) ]_vars

C13_Witness ==
    /\ pc = "returned"
    /\ \E j, k \in DOMAIN configs :
          /\ j < k
          /\ ~configs[j].sync_enabled /\ configs[j].is_selected
          /\ exists[j] /\ LedgerRows(j) # {}
          /\ EventsOf(k, "success") # {} /\ applied[k] > 0

\* C14: synchronize_tables never raises, whatever fails and whatever the
\* callback does.
C14_NeverRaises == pc # "raised"

RECURSIVE SumReturned(_, _)
SumReturned(field, n) ==
    IF n = 0 THEN 0
    ELSE SumReturned(field, n - 1)
         + (IF events[n].ev = "success" THEN events[n].stats[field] ELSE 0)

NoKey(j) == configs[j].primary_key_columns = <<>> /\ catalog[j].pk_constraint = <<>>

NoPkFailed(j) ==
    \E n \in EventsOf(j, "error") : events[n].msg = "No se pudo detectar clave primaria"

\* C16: a table with no key configured and no primary-key constraint never
\* reaches the diff: no batch is applied for it and its run does not succeed;
\* when its key detection has failed, the failure is in the error list of the
\* aggregate, and at the end the tables after it have been attempted.
C16_NoPrimaryKey ==
    \A j \in DOMAIN configs :
        NoKey(j) =>
            /\ applied[j] = 0
            /\ EventsOf(j, "batch") = {} /\ EventsOf(j, "success") = {}
            /\ i = j => pc \notin {"upsert", "sync", "finish"}
            /\ NoPkFailed(j) =>
                  /\ total_stats.failed > 0
                  /\ \E n \in DOMAIN total_stats.errors :
                        total_stats.errors[n]
                            = FullName(configs[j]) \o ": No se pudo detectar clave primaria"
                  /\ Over => LaterAttempted(j)

MirrorFailed(j) ==
    \E n \in EventsOf(j, "error") : events[n].msg = "mirror failed"

\* C17: while the mirror of a table is being created the table is not yet in
\* the destination, and when the creation fails the table does not exist
\* afterwards, the table run has failed, and the tables after it are attempted.
C17_MirrorAllOrNothing ==
    /\ pc = "mirror" => ~exists[i]
    /\ \A j \in DOMAIN configs :
          MirrorFailed(j) =>
              /\ ~exists[j]
              /\ EventsOf(j, "success") = {} /\ applied[j] = 0
              /\ Over => LaterAttempted(j)

\* C18: data-definition statements are executed only for a table that was
\* absent from the destination when its run began.
C18_NoDdlOnExisting ==
    \A n \in DOMAIN events :
        events[n].ev = "ddl" =>
            \E m \in EventsOf(events[n].table, "begin") : m < n /\ ~events[m].existed

C18_Witness ==
    /\ pc = "returned"
    /\ \E j, k \in DOMAIN configs :
          /\ \E m \in EventsOf(j, "begin") : events[m].existed
          /\ EventsOf(j, "success") # {}
          /\ Cardinality(EventsOf(k, "ddl")) = MaxStatements
          /\ EventsOf(k, "success") # {}

\* C19: once a connection failure has occurred, no further table is attempted.
C19_ConnectionFatal ==
    \A n, m \in DOMAIN events :
        /\ events[n].ev = "error" /\ events[n].msg = "connection lost"
        /\ n < m
        => events[m].ev # "begin"

SameTable(r1, r2) == r1.schema_name = r2.schema_name /\ r1.table_name = r2.table_name

UpsertOf(rows, c) ==
    upsert_metadata(rows, c, c.change_detection_strategy, c.rowversion_column)

LedgerSound ==
    /\ \A r1, r2 \in ledger : SameTable(r1, r2) => r1 = r2
    /\ \A j \in DOMAIN configs :
          /\ UpsertOf(UpsertOf(ledger, configs[j]), configs[j]) = UpsertOf(ledger, configs[j])
          /\ Cardinality({ row \in UpsertOf(ledger, configs[j]) :
                             Matches(row, configs[j].schema, configs[j].table_name) }) = 1
    /\ pc \in {"sync", "finish"} => LedgerRows(i) # {}

CountersAtLeast(row, kept) ==
    /\ kept.records_inserted >= row.records_inserted
    /\ kept.records_updated >= row.records_updated
    /\ kept.records_deleted >= row.records_deleted

CountersAdded(row, kept, s) ==
    /\ kept.records_inserted = row.records_inserted + s.inserted
    /\ kept.records_updated = row.records_updated + s.updated
    /\ kept.records_deleted = row.records_deleted + s.deleted

\* C21: in every step but a reset each ledger row keeps counters at least as
\* large; the step that ends a table run in success adds the counts of the run
\* to the table's counters and sets status SUCCESS and no error message, and a
\* step that records a failure adds the counts passed and sets status ERROR and
\* the message, all in that one step.
C21_CountersGrow ==
    [][ \/ ResetTableMetadata
        \/ /\ \A row \in ledger : \E kept \in ledger' : SameTable(row, kept) /\ CountersAtLeast(row, kept)
           /\ pc = "finish" =>
                \A row \in LedgerRows(i) : \E kept \in ledger' :
                    /\ SameTable(row, kept) /\ CountersAdded(row, kept, inner)
                    /\ kept.last_sync_status = "SUCCESS" /\ kept.last_error_message = None
           /\ pc \notin {"finish", "upsert"} /\ ledger' # ledger =>
                \A row \in LedgerRows(i) : \E kept \in ledger' :
                    /\ SameTable(row, kept) /\ CountersAdded(row, kept, stats)
                    /\ kept.last_sync_status = "ERROR" /\ kept.last_error_message # None
      ]_vars

C21_Witness ==
    /\ pc = "returned"
    /\ \E row \in LedgerRows(1) :
          /\ row.last_sync_status = "SUCCESS"
          /\ row.records_inserted = 2 /\ row.records_updated = 1 /\ row.records_deleted = 2
    /\ \E row \in LedgerRows(2) :
          row.last_sync_status = "ERROR" /\ row.last_error_message = "batch failed"

ConfigurationKept(row, kept) ==
    /\ kept.schema_name = row.schema_name /\ kept.table_name = row.table_name
    /\ kept.primary_key_columns = row.primary_key_columns
    /\ kept.pk_auto_detected = row.pk_auto_detected
    /\ kept.where_clause = row.where_clause
    /\ kept.change_detection_strategy = row.change_detection_strategy
    /\ kept.rowversion_column = row.rowversion_column
    /\ kept.last_sync_date = row.last_sync_date
    /\ kept.last_sync_status = row.last_sync_status
    /\ kept.created_date = row.created_date

Cleared(kept) ==
    /\ kept.records_inserted = 0 /\ kept.records_updated = 0 /\ kept.records_deleted = 0
    /\ kept.last_error_message = None /\ kept.last_error_date = None
    /\ kept.last_rowversion_synced = None /\ kept.last_hash_synced = None

Chosen(c) ==
    IF rowversion_columns(tbl) # <<>>
    THEN /\ c.change_detection_strategy = CHANGE_DETECTION_ROWVERSION
         /\ c.rowversion_column = rowversion_columns(tbl)[1]
    ELSE c.change_detection_strategy = CHANGE_DETECTION_HASH

Shows(row, c) ==
    /\ Matches(row, c.schema, c.table_name)
    /\ row.change_detection_strategy = c.change_detection_strategy
    /\ row.rowversion_column = c.rowversion_column

\* C23: once the synchronizer is instantiated the configuration holds the
\* rowversion strategy and the column's name if the source table has a
\* rowversion column and the hash strategy otherwise, and after a run in which
\* the strategy was chosen the table's ledger row shows that strategy and column.
C23_StrategyPersisted ==
    /\ pc \notin {"idle", "loop", "construct"} => Chosen(cfg)
    /\ result # "NONE" /\ failed.step # "detect" =>
          Chosen(cfg) /\ \E row \in ledger : Shows(row, cfg)

\* The outcome of a successful run as a function of the source and destination
\* contents (their k and v values), the key k and the filter alone.
KVRows(b) == { [k |-> r.k, v |-> r.v] : r \in Rows(b) }

InW(S) == { r \in S : Satisfies(r, Where) }

KeysIn(S) == { r.k : r \in S }

RefInserted(S, D) == { s \in InW(S) : s.k \notin KeysIn(D) }

RefUpdated(S, D) == { s \in InW(S) : \E d \in D : d.k = s.k /\ d.v # s.v }

RefAfterUpdates(S, D) ==
    LET D1 == D \cup RefInserted(S, D)
        U == RefUpdated(S, D1)
    IN { d \in D1 : d.k \notin KeysIn(U) } \cup U

RefDeleted(S, D) == { d \in InW(RefAfterUpdates(S, D)) : d.k \notin KeysIn(InW(S)) }

SameAsRef ==
    LET S == KVRows(src)
        D == KVRows(dst0)
    IN /\ KVRows(dst) = RefAfterUpdates(S, D) \ RefDeleted(S, D)
       /\ stats.inserted = Cardinality(RefInserted(S, D))
       /\ stats.updated = Cardinality(RefUpdated(S, D \cup RefInserted(S, D)))
       /\ stats.deleted = Cardinality(RefDeleted(S, D))

Generated == pc \in {"generated", "committed", "rolled_back", "extracted_again"}

\* The section of a statement, in the numbering of the script's comment lines.
SectionOf(st) ==
    CASE st.kind = "TABLE" -> 1
      [] st.kind = "PRIMARY KEY" -> 2
      [] st.kind = "UNIQUE" -> 3
      [] st.kind = "DEFAULT" -> 4
      [] st.kind = "CHECK" -> 5
      [] st.kind = "INDEX" -> 6
      [] st.kind = "FOREIGN KEY" -> 7
      [] OTHER -> 8

\* ALTER TABLE ... NOCHECK CONSTRAINT ...
Disables(st) == Len(st.head) >= 3 /\ st.head[3] = "NOCHECK"

\* The statements of the script that add something of section n.
Adding(n) ==
    { j \in DOMAIN ddl_script : SectionOf(ddl_script[j]) = n /\ ~Disables(ddl_script[j]) }

\* C25: the script of a TableDefinition has one statement for the table and
\* its columns, one per primary key, unique constraint, default, check
\* constraint, index and foreign key of the definition, and a statement of an
\* earlier section -- table, primary key, unique, default, check, index,
\* foreign key -- stands before every statement of a later one, so that
\* nothing follows the foreign keys but foreign keys.
C25_SectionOrder ==
    Generated =>
        /\ \A a, b \in DOMAIN ddl_script :
              a < b => SectionOf(ddl_script[a]) <= SectionOf(ddl_script[b])
        /\ \A a, b \in DOMAIN ddl_script :
              a < b /\ ddl_script[a].kind = "FOREIGN KEY" => ddl_script[b].kind = "FOREIGN KEY"
        /\ Adding(1) = {1}
        /\ Cardinality(Adding(2)) = (IF table_def.primary_key.present THEN 1 ELSE 0)
        /\ Cardinality(Adding(3)) = Len(table_def.unique_constraints)
        /\ Cardinality(Adding(4)) = Len(table_def.default_constraints)
        /\ Cardinality(Adding(5)) = Len(table_def.check_constraints)
        /\ Cardinality(Adding(6)) = Len(table_def.indexes)
        /\ Cardinality(Adding(7)) = Len(table_def.foreign_keys)

C25_Witness ==
    /\ pc = "generated"
    /\ \A n \in 1..7 : Adding(n) # {}
    /\ Disables(ddl_script[Len(ddl_script)])
    /\ ddl_script[Len(ddl_script)].kind = "FOREIGN KEY"
    /\ \E j \in DOMAIN ddl_script : ddl_script[j].kind = "CHECK" /\ Disables(ddl_script[j])

SameDefinition(a, b) ==
    /\ a.columns = b.columns
    /\ a.primary_key = b.primary_key
    /\ a.indexes = b.indexes
    /\ a.unique_constraints = b.unique_constraints
    /\ a.default_constraints = b.default_constraints
    /\ a.check_constraints = b.check_constraints
    /\ a.foreign_keys = b.foreign_keys

\* C26: when the destination has run the script of a source definition and
\* the extractor reads the table it made, the definition it returns equals the
\* source definition in columns, primary key, indexes and constraints.
C26_RoundTrip ==
    pc = "extracted_again" => SameDefinition(mirror_def, table_def)

\* The rendering of column j of the definition in the CREATE TABLE statement.
TypeOf(j) == ddl_script[1].columns[j].type

\* C27: a char, varchar, nchar, nvarchar, binary or varbinary column renders
\* MAX when its max_length is -1 and otherwise its length, which is the stored
\* length for char, varchar, binary and varbinary and half of it for nchar and
\* nvarchar; decimal and numeric render (precision,scale); time, datetime2 and
\* datetimeoffset render (scale); every other type renders its name alone.
C27_TypeRendering ==
    Generated =>
        \A j \in DOMAIN table_def.columns :
            LET col == table_def.columns[j] IN
            ~col.is_computed =>
                /\ TypeOf(j).type_name = col.type_name
                /\ IF col.type_name \in {"char", "varchar", "nchar", "nvarchar",
                                         "binary", "varbinary"}
                   THEN IF col.max_length = -1
                        THEN TypeOf(j).max /\ TypeOf(j).params = <<>>
                        ELSE /\ ~TypeOf(j).max
                             /\ Len(TypeOf(j).params) = 1
                             /\ IF col.type_name \in {"nchar", "nvarchar"}
                                THEN 2 * TypeOf(j).params[1] = col.max_length
                                ELSE TypeOf(j).params[1] = col.max_length
                   ELSE IF col.type_name \in {"decimal", "numeric"}
                   THEN ~TypeOf(j).max /\ TypeOf(j).params = <<col.precision, col.scale>>
                   ELSE IF col.type_name \in {"time", "datetime2", "datetimeoffset"}
                   THEN ~TypeOf(j).max /\ TypeOf(j).params = <<col.scale>>
                   ELSE ~TypeOf(j).max /\ TypeOf(j).params = <<>>

C27_Witness ==
    /\ pc = "generated"
    /\ table_def.columns[2].type_name = "nvarchar"
    /\ table_def.columns[2].max_length = 20
    /\ TypeOf(2) = Rendered("nvarchar", FALSE, <<10>>)
    /\ TypeOf(1) = Rendered("int", FALSE, <<>>)

\* The statements that phase p of this run has committed, and its batches.
IssuedIn(p) == { j \in DOMAIN issued : issued[j].phase = p }

BatchesOf(p) == { j \in IssuedIn(p) : issued[j].last }

\* The reports that phase p of this run has made, by position in reports.
ReportsIn(p) == { n \in DOMAIN reports : reports[n].run = runs /\ reports[n].phase = p }

\* Phase p of the running table run has returned.
Completed(p) ==
    \/ pc = "finish"
    \/ pc = "sync" /\ \E j \in 1..(ph - 1) : PhaseSeq(cfg)[j] = p

\* C28: without a sink nothing is reported; with one, every phase reports
\* after each batch it has applied ('PROGRESS', current, total, percent), where
\* current is the number of rows the phase has applied so far and total the
\* size of its queue, so that current grows strictly from report to report and
\* never exceeds total, and the last report of a phase that has returned has
\* current = total and percent = 100; and with or without a sink the count of
\* a phase is the number of statements it committed and the destination is
\* what these statements made of it.
C28_Progress ==
    /\ ~callback.given => reports = <<>>
    /\ \A n \in DOMAIN reports :
          /\ reports[n].args[1] = "PROGRESS"
          /\ reports[n].args[2] <= reports[n].args[3]
    /\ \A m, n \in DOMAIN reports :
          m < n /\ reports[m].run = reports[n].run /\ reports[m].phase = reports[n].phase
              => /\ reports[m].args[2] < reports[n].args[2]
                 /\ reports[m].args[3] = reports[n].args[3]
    /\ pc \in {"sync", "finish"} =>
          \A p \in Range(PhaseSeq(cfg)) :
              /\ callback.given =>
                    /\ Cardinality(ReportsIn(p)) = Cardinality(BatchesOf(p))
                    /\ \A n \in ReportsIn(p) :
                          LET k == Cardinality({ m \in ReportsIn(p) : m <= n })
                          IN /\ reports[n].args[2] =
                                  Cardinality({ j \in IssuedIn(p) : issued[j].batch <= k })
                             /\ p = CurPhase /\ prepared => reports[n].args[3] = total
                             /\ Completed(p) => reports[n].args[3] = Cardinality(IssuedIn(p))
                             /\ Completed(p) /\ k = Cardinality(ReportsIn(p))
                                   => /\ reports[n].args[2] = reports[n].args[3]
                                      /\ reports[n].args[4] = 100
              /\ p = CurPhase /\ prepared => count = Cardinality(IssuedIn(p))
              /\ Completed(p) => inner[StatOf(p)] = Cardinality(IssuedIn(p))
    /\ pc = "finish" => dst \in Replay({dst0}, issued)

C28_Witness ==
    /\ pc = "finish"
    /\ callback.given
    /\ \E m, n \in ReportsIn("updates") :
          /\ reports[m].args = <<"PROGRESS", 1, 2, 50>>
          /\ reports[n].args = <<"PROGRESS", 2, 2, 100>>
    /\ Cardinality(ReportsIn("updates")) = 2
    /\ inner.updated = 2

\* The calls of the callback that the events stand for: SYNCING at "begin",
\* PROGRESS at "batch", SUCCESS at "success" and ERROR at "error".
TerminalCalls(j) == EventsOf(j, "success") \cup EventsOf(j, "error")

\* C29: with a callback, a table that is not selected or not enabled causes no
\* call; a selected and enabled table gets one SYNCING call before anything is
\* done for it, then the PROGRESS calls of its batches, then one terminal call
\* and nothing after it, so that when synchronize_tables is over every such
\* table has had exactly one SYNCING call and exactly one of SUCCESS and ERROR,
\* SUCCESS for the tables counted successful and ERROR for those counted failed.
C29_CallbackOrder ==
    callback.given =>
        /\ \A n \in DOMAIN events : Processed(events[n].table)
        /\ \A j \in DOMAIN configs :
              /\ Cardinality(EventsOf(j, "begin")) <= 1
              /\ Cardinality(TerminalCalls(j)) <= 1
              /\ \A n \in DOMAIN events :
                    events[n].table = j =>
                        /\ \E b \in EventsOf(j, "begin") : b <= n
                        /\ \A t \in TerminalCalls(j) : n <= t
              /\ Over /\ Processed(j) =>
                    /\ Cardinality(EventsOf(j, "begin")) = 1
                    /\ Cardinality(TerminalCalls(j)) = 1
        /\ Over =>
              /\ total_stats.successful
                    = Cardinality({ j \in DOMAIN configs : EventsOf(j, "success") # {} })
              /\ total_stats.failed
                    = Cardinality({ j \in DOMAIN configs : EventsOf(j, "error") # {} })

\* The stages of synchronize() in the order of its try block (sync.py 145-168).
StageOrder ==
    { <<"ensure", "detect_pk">>, <<"detect_pk", "upsert">>, <<"upsert", "sync">>,
      <<"sync", "finish">> }

\* The ledger holds the table's row with the strategy, key columns and filter of c.
Persisted(c) ==
    \E row \in ledger :
        /\ Shows(row, c)
        /\ row.primary_key_columns =
              (IF c.primary_key_columns # <<>> THEN Join(c.primary_key_columns) ELSE None)
        /\ row.where_clause = c.where_clause

\* The diff of the current or the last table run was started.
DiffStarted ==
    \/ pc \in {"sync", "finish"}
    \/ result = "SUCCESS"
    \/ result = "ERROR" /\ failed.step \in {"inserts", "updates", "deletes"}

\* C30: a table run goes through ensure schema, resolve key, upsert the
\* configuration row, diff, in that order, each stage left either for the next
\* one or, by an exception, for ERROR; it ends in exactly one of SUCCESS and
\* ERROR, which is what the table's ledger row then says; SUCCESS is recorded
\* only by the step that follows the return of the third diff phase, the
\* phases having returned one after the other; and from the start of the diff
\* on, whether it succeeds or fails, the ledger holds the configuration row with
\* the run's strategy, key columns and filter.
C30_RunStages ==
    /\ [](DiffStarted => Persisted(cfg))
    /\ [](result # "NONE" /\ failed.step # "detect" =>
             /\ result \in {"SUCCESS", "ERROR"}
             /\ result = "SUCCESS" <=> failed = NoFailure
             /\ \A row \in ledger :
                    Matches(row, cfg.schema, cfg.table_name) =>
                        row.last_sync_status = result)
    /\ [][ /\ pc \in {"ensure", "detect_pk", "upsert", "sync", "finish"} /\ pc' # pc =>
                \/ <<pc, pc'>> \in StageOrder
                \/ pc # "finish" /\ pc' = "loop" /\ result' = "ERROR"
                \/ pc = "finish" /\ pc' = "loop" /\ result' = "SUCCESS"
           /\ pc' = "ensure" => pc = "construct"
           /\ result' = "SUCCESS" /\ result # "SUCCESS" => pc = "finish"
           /\ (\E row \in ledger' : row.last_sync_status = "SUCCESS") =>
                 \/ pc = "finish"
                 \/ \E row \in ledger : row.last_sync_status = "SUCCESS"
           /\ pc = "sync" /\ pc' = "sync" /\ ph' # ph =>
                 ph' = ph + 1 /\ returned' = PhaseSeq(cfg)[ph]
           /\ pc # "finish" /\ pc' = "finish" =>
                 /\ Len(PhaseSeq(cfg)) = 3
                 /\ ph = 3
                 /\ returned' = PhaseSeq(cfg)[3] ]_vars

\* A run whose diff failed in its second phase after applying a statement: the
\* configuration row is in the ledger and says ERROR.
C30_Witness ==
    /\ pc = "loop"
    /\ result = "ERROR"
    /\ failed.step = "updates"
    /\ issued # <<>>
    /\ Persisted(cfg)
    /\ \E row \in ledger :
          Matches(row, cfg.schema, cfg.table_name) /\ row.last_sync_status = "ERROR"

\* The key columns that a committed statement names in its WHERE clause.
WhereColumns(st) ==
    IF st.op = "DELETE" THEN st.cols
    ELSE SubSeq(st.cols, Len(st.cols) - Len(cfg.primary_key_columns) + 1, Len(st.cols))

\* C31: key resolution leaves a non-empty configured key list, the
\* auto-detected flag and the rest of the configuration as they are and cannot
\* fail; with an empty list it stores the columns of the source's PRIMARY KEY
\* constraint in key-ordinal order and sets the flag, or fails when there is no
\* constraint; and during the diff the ledger row holds the comma-joined list
\* and flag of the configuration, which is the list the UPDATE and DELETE
\* statements name and the key that every queued row is identified by.
C31_KeyResolution ==
    /\ [][ pc = "detect_pk" =>
             IF cfg.primary_key_columns # <<>>
             THEN pc' = "upsert" /\ cfg' = cfg /\ result' = result /\ ledger' = ledger
             ELSE IF tbl.pk_constraint = <<>>
             THEN pc' = "loop" /\ result' = "ERROR" /\ cfg' = cfg
             ELSE /\ pc' = "upsert"
                  /\ cfg' = [cfg EXCEPT !.primary_key_columns = tbl.pk_constraint,
                                        !.pk_auto_detected = TRUE] ]_vars
    /\ [](pc \in {"sync", "finish"} =>
            /\ cfg.primary_key_columns # <<>>
            /\ \E row \in ledger :
                  /\ Matches(row, cfg.schema, cfg.table_name)
                  /\ row.primary_key_columns = Join(cfg.primary_key_columns)
                  /\ row.pk_auto_detected = cfg.pk_auto_detected
            /\ \A j \in DOMAIN issued :
                  issued[j].op \in {"UPDATE", "DELETE"} =>
                      WhereColumns(issued[j]) = cfg.primary_key_columns)

\* A run that detected the key (v, k) of the source, wrote it to the ledger and
\* deleted by it.
C31_Witness ==
    /\ pc = "finish"
    /\ tbl.pk_constraint = <<"v", "k">>
    /\ cfg.primary_key_columns = <<"v", "k">> /\ cfg.pk_auto_detected
    /\ \E row \in ledger : row.primary_key_columns = "v,k"
    /\ \E j \in DOMAIN issued :
          issued[j].op = "DELETE" /\ issued[j].params = <<"B", 2>>

\* The batch size of phase p and the key of the stats dict its count is stored under.
BatchSizeOf(p) == IF p = "inserts" THEN insert_batch_size ELSE batch_size

FieldOf(p) ==
    IF p = "inserts" THEN "inserted" ELSE IF p = "updates" THEN "updated" ELSE "deleted"

\* The statements of batch number b of phase p.
BatchRows(p, b) == { j \in IssuedIn(p) : issued[j].batch = b }

BatchNumbers(p) == { issued[j].batch : j \in IssuedIn(p) }

\* The statements that a step has added to the committed ones.
NewlyIssued == SubSeq(issued', Len(issued) + 1, Len(issued'))

C33_ConfiguredBatchSize ==
    pc \in {"sync", "finish"} =>
        \A p \in Range(PhaseSeq(cfg)) : \A b \in BatchNumbers(p) :
            /\ Cardinality(BatchRows(p, b)) <= BATCH_SIZE
            /\ (\E later \in BatchNumbers(p) : later > b) =>
                  Cardinality(BatchRows(p, b)) = BATCH_SIZE

\* The PRIMARY KEY statements of the generated script, by position.
PrimaryKeyStatements == { j \in DOMAIN ddl_script : ddl_script[j].kind = "PRIMARY KEY" }

\* The key columns of a statement are those captured, in their order, each with
\* the direction captured.
SameKeyColumns(st, captured) ==
    /\ DOMAIN st.columns = DOMAIN captured
    /\ \A j \in DOMAIN captured :
          /\ st.columns[j].name = captured[j].name
          /\ st.columns[j].direction = (IF captured[j].is_descending THEN "DESC" ELSE "ASC")

\* C34: for a captured primary key the script has one PRIMARY KEY statement,
\* which names the captured constraint, declares the captured index type,
\* CLUSTERED or NONCLUSTERED, and lists the captured key columns in order with
\* their directions.
C34_PrimaryKeyStatement ==
    Generated /\ table_def.primary_key.present =>
        /\ Cardinality(PrimaryKeyStatements) = 1
        /\ \A j \in PrimaryKeyStatements :
              /\ ddl_script[j].name = table_def.primary_key.constraint_name
              /\ ddl_script[j].head[7] = table_def.primary_key.index_type
              /\ SameKeyColumns(ddl_script[j], table_def.primary_key.columns)

\* The index statements of the generated script, in script order.
IsIndexStatement(st) == st.kind = "INDEX"

IndexStatements == SelectSeq(ddl_script, IsIndexStatement)

\* The words of CREATE [UNIQUE] <CLUSTERED|NONCLUSTERED> INDEX for a captured index.
CreateIndexWords(idx) ==
    <<"CREATE">> \o (IF idx.is_unique THEN <<"UNIQUE">> ELSE <<>>) \o <<idx.type_desc, "INDEX">>

\* C35: the script has one statement per captured non-primary-key index, in
\* captured order, made of the words CREATE, UNIQUE for a unique index, the
\* captured type, INDEX, the index name and the key columns with their
\* directions, with an INCLUDE clause listing the included columns exactly when
\* some were captured, a WHERE clause with the filter exactly when a filter was
\* captured and a FILLFACTOR exactly when the captured fill factor is not zero.
C35_IndexStatements ==
    Generated =>
        /\ Len(IndexStatements) = Len(table_def.indexes)
        /\ \A j \in DOMAIN table_def.indexes :
              LET idx == table_def.indexes[j]
                  st == IndexStatements[j]
              IN /\ st.head = CreateIndexWords(idx)
                 /\ st.name = idx.name
                 /\ SameKeyColumns(st, idx.key_columns)
                 /\ st.include = [m \in DOMAIN idx.included_columns |->
                                     idx.included_columns[m].name]
                 /\ st.where = (IF idx.has_filter THEN idx.filter_definition ELSE None)
                 /\ st.fillfactor = idx.fill_factor

\* C36: during the diff every key column is among the columns that the insert
\* and update phases select from the source, and no run fails on reading a key
\* column of a row it fetched.
C36_KeyReadable ==
    /\ pc \in {"sync", "finish"} =>
          Range(cfg.primary_key_columns) \subseteq Range(get_insertable_columns(tbl))
    /\ failed.step # "none" => failed.msg # "AttributeError"

\* The entries that the failures among the first n events put in the error
\* list, in the order of the failures.
RECURSIVE ErrorsUpTo(_)
ErrorsUpTo(n) ==
    IF n = 0 THEN <<>>
    ELSE IF events[n].ev = "error"
    THEN Append(ErrorsUpTo(n - 1), FullName(configs[events[n].table]) \o ": " \o events[n].msg)
    ELSE ErrorsUpTo(n - 1)

\* C37: in the aggregate returned, the successful and failed counts add up to
\* the number of selected and enabled configurations, each of these tables
\* having ended once, in success or in failure; the error list has as many
\* entries as tables failed, one per failed table, in the order in which the
\* tables were processed.
C37_CountedOnce ==
    pc = "returned" =>
        /\ total_stats.successful + total_stats.failed
              = Cardinality({ j \in DOMAIN configs : Processed(j) })
        /\ \A j \in DOMAIN configs : Processed(j) => Cardinality(TerminalCalls(j)) = 1
        /\ Len(total_stats.errors) = total_stats.failed
        /\ total_stats.errors = ErrorsUpTo(Len(events))
        /\ \A n1, n2 \in DOMAIN events :
              events[n1].ev = "error" /\ events[n2].ev = "error" /\ n1 < n2
                  => events[n1].table < events[n2].table

\* C38: a ledger row whose status is ERROR has an error message and one whose
\* status is SUCCESS has none.
C38_StatusAndMessage ==
    \A row \in ledger :
        /\ row.last_sync_status = "ERROR" => row.last_error_message # None
        /\ row.last_sync_status = "SUCCESS" => row.last_error_message = None

\* C39: in every ledger row the rowversion column is set if and only if the
\* change detection strategy is rowversion.
C39_VersionColumnIffStrategy ==
    \A row \in ledger :
        row.rowversion_column # None
            <=> row.change_detection_strategy = CHANGE_DETECTION_ROWVERSION

\* The key that a committed statement inserts, updates or deletes by.
KeyOfStatement(st) == IF st.op = "DELETE" THEN st.params ELSE KeyOf(st.params, Pk)

\* The keys of the change set of a phase of this run.
ChangeSet(op) == { KeyOfStatement(issued[j]) : j \in IssuedOf(op) }

\* The rows of table b with a given key, as a bag.
RowsOfKey(b, key) == [r \in DOMAIN b |-> IF KeyOf(r, Pk) = key THEN b[r] ELSE 0]

\* How many rows bag b holds beyond those of bag c.
Beyond(b, c) == Size([r \in DOMAIN b |-> IF b[r] > c[r] THEN b[r] - c[r] ELSE 0])

\* The number of destination rows with a given key that the run added,
\* removed or rewrote (a rewritten row is one removed and one added).
ChangedRowsOfKey(key) ==
    LET before == RowsOfKey(dst0, key)
        after  == RowsOfKey(dst, key)
    IN  IF Beyond(after, before) > Beyond(before, after)
        THEN Beyond(after, before) ELSE Beyond(before, after)

ChangedRows ==
    SumOver([key \in KeysOf(DOMAIN dst) |-> ChangedRowsOfKey(key)], KeysOf(DOMAIN dst))

ChangeSetsDisjoint ==
    /\ ChangeSet("INSERT") \cap ChangeSet("UPDATE") = {}
    /\ ChangeSet("INSERT") \cap ChangeSet("DELETE") = {}
    /\ ChangeSet("UPDATE") \cap ChangeSet("DELETE") = {}
    /\ stats.inserted + stats.updated + stats.deleted = ChangedRows

\* C40 as stated: after a successful run no key is in two of the run's change
\* sets, and the three counts add up to the number of destination rows the
\* run changed, for every key column list.
C40_DisjointAnyKey ==
    result = "SUCCESS" => ChangeSetsDisjoint

\* C40 amended: the same, when no two source rows in the filter scope and no
\* two destination rows share a key tuple.
C40_Disjoint ==
    result = "SUCCESS" /\ KeyUnique(src, InScope(src)) /\ KeyUnique(dst0, Rows(dst0))
        => ChangeSetsDisjoint

\* A successful run that inserted one key and deleted another.
C40_Witness ==
    /\ result = "SUCCESS"
    /\ KeyUnique(src, InScope(src)) /\ KeyUnique(dst0, Rows(dst0))
    /\ ChangeSet("INSERT") = {<<1>>}
    /\ ChangeSet("DELETE") = {<<2>>}
    /\ stats.inserted = 1 /\ stats.deleted = 1


====
